---- MODULE Spec2Model ----
(***************************************************************************)
(* Bitcoin address tracker: the address registry, the transaction store,   *)
(* the synchronizer and the balance calculator.                            *)
(*                                                                         *)
(* A table is the bag of its rows.  The surrogate id column of both tables *)
(* (INTEGER PRIMARY KEY AUTOINCREMENT) is left out of a row: no statement  *)
(* of the repository reads it in a WHERE, an ORDER BY or a join, and a bag *)
(* still tells two equal rows from one.                                    *)
(*                                                                         *)
(* Spec     : every service call runs alone, one action per call.          *)
(* SpecConc : two workers (an HTTP request and the background ticker) run  *)
(*            service calls one repository statement at a time.            *)
(***************************************************************************)
EXTENDS Bags, FiniteSets, Integers, Sequences, TLC

\* ------------------------------------------------------------------ bounds
\* longest upstream response when one address is tracked (the code asks the
\* adapter for up to 100 events)
MaxWindow == 2
\* longest upstream response when two addresses, or two workers, are at play
MaxEvents == 1
\* last value of the clock
MaxTime == 2

\* ---------------------------------------------------------------- universe
\* address strings a caller may send; the first two are the P2PKH and P2SH
\* samples of the client's test, the last one its wrong-prefix sample
AddrA == "1A1zP1eP5QGefi2DMPTfTL5SLmv7DivfNa"
AddrB == "3E8ociqZa9mZUSwGdSmAEMAoAxBK3FNDcd"
AddrBad == "2N1234567890abcdef"
Addrs == {AddrA, AddrB}
Labels == {"", "savings"}


\* raw upstream events (BlockchairTransaction)
Ev1 == [hash |-> "h1", time |-> 1, balance_change |-> 500000000, block_id |-> 800000]
Ev2 == [hash |-> "h2", time |-> 2, balance_change |-> -200000000, block_id |-> 800010]
Ev3 == [hash |-> "h3", time |-> 2, balance_change |-> 100000000, block_id |-> 0]
\* the event of h3 once it is in a block
Ev4 == [hash |-> "h3", time |-> 2, balance_change |-> 100000000, block_id |-> 800020]
LedgerEvents == {Ev1, Ev2, Ev3}
PendingEvents == {Ev3, Ev4}
ScenarioEvents == <<Ev1, Ev2, Ev3>>

SeqsUpTo(S, n) == UNION {[1..k -> S] : k \in 0..n}

\* what one call of the adapter answers: a decoded window or a failure
FetchFail == [ok |-> FALSE, events |-> <<>>]
FetchOk(evs) == [ok |-> TRUE, events |-> evs]
ResponsesOver(events, n) == {FetchOk(evs) : evs \in SeqsUpTo(events, n)} \cup {FetchFail}
\* Spec: one tracked address, windows of the ledger h1, h2, h3 in any order,
\* and the whole ledger in the order of its events
LedgerResponses == ResponsesOver(LedgerEvents, MaxWindow) \cup {FetchOk(ScenarioEvents)}
\* SpecTwo, SpecConc: h3 as the upstream shows it before and after its block
PendingResponses == ResponsesOver(PendingEvents, MaxEvents)
\* the upstream of an address that has received h1 and nothing else
DepositResponses == ResponsesOver({Ev1}, MaxEvents)

\* ------------------------------------------------------------------- state
VARIABLES
    addresses,      \* table addresses: bag of [address, label, created_at, last_synced]
    transactions,   \* table transactions: bag of transaction rows
    now,            \* the clock read by CURRENT_TIMESTAMP and time.Now()
    last,           \* the service call that returned last, and what it returned
    wk              \* SpecConc: where each worker is in its service call

vars == <<addresses, transactions, now, last, wk>>

\* goroutines serving a request or the ticker
Workers == {"w1", "w2"}

\* sql.NullTime
NullTime == [Valid |-> FALSE, Time |-> 0]
ValidTime(t) == [Valid |-> TRUE, Time |-> t]

\* a connection opened with _foreign_keys=on: ON DELETE CASCADE is enforced
ForeignKeysOn == TRUE
\* the DSN "bitcoin_tracker.db" sets no _foreign_keys and the build sets no
\* sqlite_foreign_keys tag: SQLite parses the FOREIGN KEY clause and does not
\* enforce it
ForeignKeysEnabled == FALSE

\* ----------------------------------------------------------------- tables
Rows(table) == BagToSet(table)
Insert(table, row) == table (+) SetToBag({row})
DeleteRows(table, gone) == [r \in Rows(table) \ gone |-> table[r]]
TxRowsOf(txs, address) == {r \in Rows(txs) : r.address = address}
AddrRowsOf(addrs, address) == {r \in Rows(addrs) : r.address = address}

\* ------------------------------------------------------------------ client
validPrefixes == <<"1", "3", "bc1">>

\* IsValidAddress whose length test refuses an address of 26 characters
IsValidAddressOver26(address) ==
    IF Len(address) <= 26 \/ Len(address) > 62
    THEN FALSE
    ELSE \E i \in 1..Len(validPrefixes) :
            /\ Len(address) >= Len(validPrefixes[i])
            /\ SubSeq(address, 1, Len(validPrefixes[i])) = validPrefixes[i]
\* BlockchairClient.IsValidAddress: the length, then the prefixes in turn
IsValidAddress(address) ==
    IF Len(address) < 26 \/ Len(address) > 62
    THEN FALSE
    ELSE \E i \in 1..Len(validPrefixes) :
            /\ Len(address) >= Len(validPrefixes[i])
            /\ SubSeq(address, 1, Len(validPrefixes[i])) = validPrefixes[i]

\* Classify with the confirmation count 6 for every event, block or not
ClassifyAlwaysConfirmed(address, tx) ==
    [hash          |-> tx.hash,
     address       |-> address,
     amount        |-> tx.balance_change,
     confirmations |-> 6,
     block_height  |-> tx.block_id,
     timestamp     |-> tx.time,
     type          |-> IF tx.balance_change < 0 THEN "sent" ELSE "received"]
\* Classify that takes a balance change of 0 for a spend
ClassifySentOnZero(address, tx) ==
    [hash          |-> tx.hash,
     address       |-> address,
     amount        |-> tx.balance_change,
     confirmations |-> IF tx.block_id = 0 THEN 0 ELSE 6,
     block_height  |-> tx.block_id,
     timestamp     |-> tx.time,
     type          |-> IF tx.balance_change <= 0 THEN "sent" ELSE "received"]
\* the conversion loop of BlockchairClient.GetTransactions for one event
Classify(address, tx) ==
    [hash          |-> tx.hash,
     address       |-> address,
     amount        |-> tx.balance_change,
     confirmations |-> IF tx.block_id = 0 THEN 0 ELSE 6,
     block_height  |-> tx.block_id,
     timestamp     |-> tx.time,
     type          |-> IF tx.balance_change < 0 THEN "sent" ELSE "received"]

ClientGetTransactions(address, events) ==
    [i \in 1..Len(events) |-> Classify(address, events[i])]

\* -------------------------------------------------------------- repository
\* GetAddress: the rows SELECT ... WHERE address = ? finds (none: sql.ErrNoRows)
RepoGetAddress(addrs, address) == AddrRowsOf(addrs, address)

\* AddAddress whose INSERT gives last_synced the time of the insert
RepoAddAddressStamped(addrs, address, label, t) ==
    IF AddrRowsOf(addrs, address) # {}
    THEN [err |-> "add_failed", addresses |-> addrs]
    ELSE [err |-> "nil",
          addresses |-> Insert(addrs, [address |-> address, label |-> label,
                                       created_at |-> t, last_synced |-> ValidTime(t)])]
\* AddAddress over an addresses table whose address column is not UNIQUE
RepoAddAddressNoUnique(addrs, address, label, t) ==
    [err |-> "nil",
     addresses |-> Insert(addrs, [address |-> address, label |-> label,
                                  created_at |-> t, last_synced |-> NullTime])]
\* AddAddress: INSERT INTO addresses; UNIQUE(address) rejects a second row
RepoAddAddress(addrs, address, label, t) ==
    IF AddrRowsOf(addrs, address) # {}
    THEN [err |-> "add_failed", addresses |-> addrs]
    ELSE [err |-> "nil",
          addresses |-> Insert(addrs, [address |-> address, label |-> label,
                                       created_at |-> t, last_synced |-> NullTime])]

\* RemoveAddress that does not look at the number of rows the DELETE affected
RepoRemoveAddressNoCount(addrs, txs, address) ==
    [err |-> "nil",
     addresses |-> DeleteRows(addrs, AddrRowsOf(addrs, address)),
     transactions |-> IF ForeignKeysEnabled
                      THEN DeleteRows(txs, TxRowsOf(txs, address))
                      ELSE txs]
\* RemoveAddress: DELETE FROM addresses WHERE address = ?; the transactions
\* of the address go with it only when foreign keys are enforced
RepoRemoveAddress(addrs, txs, address) ==
    IF AddrRowsOf(addrs, address) = {}
    THEN [err |-> "not_found", addresses |-> addrs, transactions |-> txs]
    ELSE [err |-> "nil",
          addresses |-> DeleteRows(addrs, AddrRowsOf(addrs, address)),
          transactions |-> IF ForeignKeysEnabled
                           THEN DeleteRows(txs, TxRowsOf(txs, address))
                           ELSE txs]

\* UpdateLastSynced that inserts the row when the UPDATE matches none
RepoUpdateLastSyncedUpsert(addrs, address, t) ==
    LET hit == AddrRowsOf(addrs, address)
        upd(r) == [r EXCEPT !.last_synced = ValidTime(t)]
    IN  IF hit = {}
        THEN Insert(addrs, [address |-> address, label |-> "", created_at |-> t,
                            last_synced |-> ValidTime(t)])
        ELSE DeleteRows(addrs, hit) (+)
             [n \in {upd(r) : r \in hit} |-> addrs[CHOOSE r \in hit : upd(r) = n]]
\* UpdateLastSynced whose UPDATE has no WHERE clause
RepoUpdateLastSyncedAll(addrs, address, t) ==
    LET hit == Rows(addrs)
        upd(r) == [r EXCEPT !.last_synced = ValidTime(t)]
    IN  [n \in {upd(r) : r \in hit} |-> addrs[CHOOSE r \in hit : upd(r) = n]]
\* UpdateLastSynced: UPDATE addresses SET last_synced = ? WHERE address = ?
RepoUpdateLastSynced(addrs, address, t) ==
    LET hit == AddrRowsOf(addrs, address)
        upd(r) == [r EXCEPT !.last_synced = ValidTime(t)]
    IN  DeleteRows(addrs, hit) (+)
        [n \in {upd(r) : r \in hit} |-> addrs[CHOOSE r \in hit : upd(r) = n]]

\* GetAllAddresses: SELECT ... ORDER BY created_at DESC, every order the
\* statement may return (rows of equal created_at come in any order)
RepoGetAllAddresses(addrs) ==
    LET names == {r.address : r \in Rows(addrs)}
        created(a) == (CHOOSE r \in Rows(addrs) : r.address = a).created_at
    IN  {s \in [1..Cardinality(names) -> names] :
            /\ \A i, j \in DOMAIN s : i # j => s[i] # s[j]
            /\ \A i, j \in DOMAIN s : i < j => created(s[i]) >= created(s[j])}

\* the orders in which the engine can visit the rows of a table; rows of equal
\* timestamp leave a statement in the order of the visit
ScanOrders(table) ==
    {s \in [1..Cardinality(Rows(table)) -> Rows(table)] :
        \A i, j \in DOMAIN s : i # j => s[i] # s[j]}

\* the index of row r in the sequence scan
PositionIn(scan, r) == CHOOSE i \in DOMAIN scan : scan[i] = r

\* SELECT ... WHERE address = ? ORDER BY timestamp DESC, before LIMIT and OFFSET
OrderedByTimestamp(txs, address, scan) ==
    SortSeq(SelectSeq(scan, LAMBDA r : r.address = address),
            LAMBDA r1, r2 : \/ r1.timestamp > r2.timestamp
                            \/ /\ r1.timestamp = r2.timestamp
                               /\ PositionIn(scan, r1) < PositionIn(scan, r2))

\* LIMIT ? OFFSET ? of SQLite: a negative OFFSET is 0, a negative LIMIT is no limit
LimitOffset(rows, limit, offset) ==
    LET from == IF offset < 0 THEN 0 ELSE offset
        upto == IF limit < 0 \/ from + limit > Len(rows) THEN Len(rows) ELSE from + limit
    IN  SubSeq(rows, from + 1, upto)

\* GetTransactionsByAddress whose ties come in the order of the visit for the
\* first page and in the opposite order for the later pages
RepoGetTransactionsByAddressUnstable(txs, address, limit, offset, scan) ==
    LimitOffset(OrderedByTimestamp(txs, address,
                    IF offset <= 0 THEN scan
                    ELSE [i \in DOMAIN scan |-> scan[Len(scan) + 1 - i]]),
                limit, offset)
\* GetTransactionsByAddress: the rows of the page, in order
RepoGetTransactionsByAddress(txs, address, limit, offset, scan) ==
    LimitOffset(OrderedByTimestamp(txs, address, scan), limit, offset)

\* TransactionExists that looks for the hash under any address
TransactionExistsByHash(txs, hash, address) ==
    {r \in Rows(txs) : r.hash = hash} # {}
\* TransactionExists: SELECT COUNT(*) ... WHERE hash = ? AND address = ?
TransactionExists(txs, hash, address) ==
    {r \in Rows(txs) : r.hash = hash /\ r.address = address} # {}

\* table transactions without UNIQUE(hash, address): nothing conflicts
NoUniqueConstraint(txs, tx) == {}
\* UNIQUE(hash, address) of table transactions: the rows a new row conflicts with
TxUniqueConflicts(txs, tx) ==
    {r \in Rows(txs) : r.hash = tx.hash /\ r.address = tx.address}

\* SaveTransaction as a plain INSERT: a conflicting row fails the statement
SaveTransactionInsertOnly(addrs, txs, tx) ==
    IF TxUniqueConflicts(txs, tx) # {}
    THEN [err |-> "save_failed", transactions |-> txs]
    ELSE [err |-> "nil", transactions |-> Insert(txs, tx)]
\* SaveTransaction: INSERT OR REPLACE deletes the conflicting rows, then
\* inserts; the statement fails only on the foreign key, when it is enforced
SaveTransaction(addrs, txs, tx) ==
    IF ForeignKeysEnabled /\ AddrRowsOf(addrs, tx.address) = {}
    THEN [err |-> "save_failed", transactions |-> txs]
    ELSE [err |-> "nil",
          transactions |-> Insert(DeleteRows(txs, TxUniqueConflicts(txs, tx)), tx)]

RECURSIVE SumAmount(_, _)
SumAmount(txs, rows) ==
    IF rows = {} THEN 0
    ELSE LET r == CHOOSE x \in rows : TRUE
         IN  txs[r] * r.amount + SumAmount(txs, rows \ {r})

\* CalculateBalance whose second query has no confirmations = 0 condition
CalculateBalanceUnfiltered(txs, address) ==
    LET confirmedBalance ==
            SumAmount(txs, {r \in TxRowsOf(txs, address) : r.confirmations >= 1})
        unconfirmedBalance == SumAmount(txs, TxRowsOf(txs, address))
    IN  [Address            |-> address,
         ConfirmedBalance   |-> confirmedBalance,
         UnconfirmedBalance |-> unconfirmedBalance,
         TotalBalance       |-> confirmedBalance + unconfirmedBalance]
\* CalculateBalance: the two COALESCE(SUM(amount), 0) queries and their sum
CalculateBalance(txs, address) ==
    LET confirmedBalance ==
            SumAmount(txs, {r \in TxRowsOf(txs, address) : r.confirmations >= 1})
        unconfirmedBalance ==
            SumAmount(txs, {r \in TxRowsOf(txs, address) : r.confirmations = 0})
    IN  [Address            |-> address,
         ConfirmedBalance   |-> confirmedBalance,
         UnconfirmedBalance |-> unconfirmedBalance,
         TotalBalance       |-> confirmedBalance + unconfirmedBalance]

\* ----------------------------------------------------------------- service
\* the save loop with neither TransactionExists nor the unique constraint
RECURSIVE SaveNewUnguarded(_, _, _, _)
SaveNewUnguarded(addrs, txs, fetched, address) ==
    IF fetched = <<>>
    THEN [err |-> "nil", transactions |-> txs, savedCount |-> 0]
    ELSE LET rest == SaveNewUnguarded(addrs, Insert(txs, Head(fetched)), Tail(fetched),
                                      address)
         IN  [rest EXCEPT !.savedCount = @ + 1]
\* the save loop of SyncAddress over the fetched transactions: a transaction
\* that TransactionExists finds is skipped, a failed save ends the loop
RECURSIVE SaveNew(_, _, _, _)
SaveNew(addrs, txs, fetched, address) ==
    IF fetched = <<>>
    THEN [err |-> "nil", transactions |-> txs, savedCount |-> 0]
    ELSE LET tx == Head(fetched)
         IN  IF TransactionExists(txs, tx.hash, address)
             THEN SaveNew(addrs, txs, Tail(fetched), address)
             ELSE LET saved == SaveTransaction(addrs, txs, tx)
                  IN  IF saved.err # "nil"
                      THEN [err |-> saved.err, transactions |-> saved.transactions,
                            savedCount |-> 0]
                      ELSE LET rest == SaveNew(addrs, saved.transactions,
                                               Tail(fetched), address)
                           IN  [rest EXCEPT !.savedCount = @ + 1]

\* SyncAddress without the GetAddress check that comes before the fetch
SyncAddressNoCheck(addrs, txs, address, resp, t) ==
    IF ~resp.ok
    THEN [err |-> "upstream", fetched |-> TRUE, savedCount |-> 0,
          addresses |-> addrs, transactions |-> txs]
    ELSE LET saved == SaveNew(addrs, txs, ClientGetTransactions(address, resp.events),
                              address)
         IN  [err |-> saved.err, fetched |-> TRUE, savedCount |-> saved.savedCount,
              addresses |-> IF saved.err = "nil"
                            THEN RepoUpdateLastSynced(addrs, address, t) ELSE addrs,
              transactions |-> saved.transactions]
\* SyncAddress that updates last_synced only when it saved a new transaction
SyncAddressMarksOnNew(addrs, txs, address, resp, t) ==
    IF RepoGetAddress(addrs, address) = {}
    THEN [err |-> "not_found", fetched |-> FALSE, savedCount |-> 0,
          addresses |-> addrs, transactions |-> txs]
    ELSE IF ~resp.ok
    THEN [err |-> "upstream", fetched |-> TRUE, savedCount |-> 0,
          addresses |-> addrs, transactions |-> txs]
    ELSE LET saved == SaveNew(addrs, txs, ClientGetTransactions(address, resp.events),
                              address)
         IN  [err |-> saved.err, fetched |-> TRUE, savedCount |-> saved.savedCount,
              addresses |-> IF saved.err = "nil" /\ saved.savedCount > 0
                            THEN RepoUpdateLastSynced(addrs, address, t) ELSE addrs,
              transactions |-> saved.transactions]
\* SyncAddress that saves and updates last_synced before it looks at the
\* adapter's error
SyncAddressMarksFirst(addrs, txs, address, resp, t) ==
    IF RepoGetAddress(addrs, address) = {}
    THEN [err |-> "not_found", fetched |-> FALSE, savedCount |-> 0,
          addresses |-> addrs, transactions |-> txs]
    ELSE LET saved == SaveNew(addrs, txs, ClientGetTransactions(address, resp.events),
                              address)
         IN  [err |-> IF ~resp.ok THEN "upstream" ELSE saved.err,
              fetched |-> TRUE, savedCount |-> saved.savedCount,
              addresses |-> RepoUpdateLastSynced(addrs, address, t),
              transactions |-> saved.transactions]
\* SyncAddress, run alone: resp is the adapter's answer, should it be asked
SyncAddress(addrs, txs, address, resp, t) ==
    IF RepoGetAddress(addrs, address) = {}
    THEN [err |-> "not_found", fetched |-> FALSE, savedCount |-> 0,
          addresses |-> addrs, transactions |-> txs]
    ELSE IF ~resp.ok
    THEN [err |-> "upstream", fetched |-> TRUE, savedCount |-> 0,
          addresses |-> addrs, transactions |-> txs]
    ELSE LET saved == SaveNew(addrs, txs, ClientGetTransactions(address, resp.events),
                              address)
         IN  IF saved.err # "nil"
             THEN [err |-> saved.err, fetched |-> TRUE, savedCount |-> saved.savedCount,
                   addresses |-> addrs, transactions |-> saved.transactions]
             ELSE [err |-> "nil", fetched |-> TRUE, savedCount |-> saved.savedCount,
                   addresses |-> RepoUpdateLastSynced(addrs, address, t),
                   transactions |-> saved.transactions]

\* the save loop over a store that fails: the statement named by kind
\* ("TransactionExists" or "SaveTransaction") returns an error at the
\* transaction failAt places ahead (1: this one; 0 or less: none)
RECURSIVE SaveNewOverStore(_, _, _, _, _, _)
SaveNewOverStore(addrs, txs, fetched, address, failAt, kind) ==
    IF fetched = <<>>
    THEN [err |-> "nil", transactions |-> txs, savedCount |-> 0]
    ELSE LET tx == Head(fetched)
         IN  IF failAt = 1 /\ kind = "TransactionExists"
             THEN [err |-> "exists_failed", transactions |-> txs, savedCount |-> 0]
             ELSE IF TransactionExists(txs, tx.hash, address)
             THEN SaveNewOverStore(addrs, txs, Tail(fetched), address, failAt - 1, kind)
             ELSE IF failAt = 1 /\ kind = "SaveTransaction"
             THEN [err |-> "save_failed", transactions |-> txs, savedCount |-> 0]
             ELSE LET saved == SaveTransaction(addrs, txs, tx)
                  IN  IF saved.err # "nil"
                      THEN [err |-> saved.err, transactions |-> saved.transactions,
                            savedCount |-> 0]
                      ELSE LET rest == SaveNewOverStore(addrs, saved.transactions,
                                                        Tail(fetched), address,
                                                        failAt - 1, kind)
                           IN  [rest EXCEPT !.savedCount = @ + 1]

\* SyncAddress that undoes its inserts when a statement of the loop fails
SyncAddressOverStoreRollback(addrs, txs, address, resp, t, failAt, kind) ==
    IF RepoGetAddress(addrs, address) = {}
    THEN [err |-> "not_found", fetched |-> FALSE, savedCount |-> 0,
          addresses |-> addrs, transactions |-> txs]
    ELSE IF ~resp.ok
    THEN [err |-> "upstream", fetched |-> TRUE, savedCount |-> 0,
          addresses |-> addrs, transactions |-> txs]
    ELSE LET saved == SaveNewOverStore(addrs, txs,
                                       ClientGetTransactions(address, resp.events),
                                       address, failAt, kind)
         IN  IF saved.err # "nil"
             THEN [err |-> saved.err, fetched |-> TRUE, savedCount |-> 0,
                   addresses |-> addrs, transactions |-> txs]
             ELSE [err |-> "nil", fetched |-> TRUE, savedCount |-> saved.savedCount,
                   addresses |-> RepoUpdateLastSynced(addrs, address, t),
                   transactions |-> saved.transactions]
\* SyncAddress over a store that fails in the save loop
SyncAddressOverStore(addrs, txs, address, resp, t, failAt, kind) ==
    IF RepoGetAddress(addrs, address) = {}
    THEN [err |-> "not_found", fetched |-> FALSE, savedCount |-> 0,
          addresses |-> addrs, transactions |-> txs]
    ELSE IF ~resp.ok
    THEN [err |-> "upstream", fetched |-> TRUE, savedCount |-> 0,
          addresses |-> addrs, transactions |-> txs]
    ELSE LET saved == SaveNewOverStore(addrs, txs,
                                       ClientGetTransactions(address, resp.events),
                                       address, failAt, kind)
         IN  IF saved.err # "nil"
             THEN [err |-> saved.err, fetched |-> TRUE, savedCount |-> saved.savedCount,
                   addresses |-> addrs, transactions |-> saved.transactions]
             ELSE [err |-> "nil", fetched |-> TRUE, savedCount |-> saved.savedCount,
                   addresses |-> RepoUpdateLastSynced(addrs, address, t),
                   transactions |-> saved.transactions]

\* GetBalance that records the read in last_synced
GetBalanceTouches(addrs, txs, address) ==
    IF RepoGetAddress(addrs, address) = {}
    THEN [err |-> "not_found", balance |-> CalculateBalance(EmptyBag, address),
          addresses |-> addrs, transactions |-> txs]
    ELSE [err |-> "nil", balance |-> CalculateBalance(txs, address),
          addresses |-> RepoUpdateLastSynced(addrs, address, 0), transactions |-> txs]
\* BitcoinService.GetBalance: GetAddress, then the two SELECTs of
\* CalculateBalance; addresses and transactions are the tables after the call
GetBalance(addrs, txs, address) ==
    IF RepoGetAddress(addrs, address) = {}
    THEN [err |-> "not_found", balance |-> CalculateBalance(EmptyBag, address),
          addresses |-> addrs, transactions |-> txs]
    ELSE [err |-> "nil", balance |-> CalculateBalance(txs, address),
          addresses |-> addrs, transactions |-> txs]

\* BitcoinService.GetTransactions: limit and offset are what the store is asked
GetTransactions(addrs, txs, address, limit, offset, scan) ==
    LET lim == IF limit <= 0 THEN 50 ELSE IF limit > 100 THEN 100 ELSE limit
    IN  IF RepoGetAddress(addrs, address) = {}
        THEN [err |-> "not_found", asked |-> FALSE, limit |-> 0, offset |-> 0,
              page |-> <<>>]
        ELSE [err |-> "nil", asked |-> TRUE, limit |-> lim, offset |-> offset,
              page |-> RepoGetTransactionsByAddress(txs, address, lim, offset, scan)]

\* strconv.Atoi on the query strings: an optional sign, then decimal digits
DigitOf(c) == CHOOSE d \in 0..9 : SubSeq("0123456789", d + 1, d + 1) = c
IsDigit(c) == \E d \in 0..9 : SubSeq("0123456789", d + 1, d + 1) = c
RECURSIVE DigitsValue(_)
DigitsValue(str) ==
    IF str = "" THEN 0
    ELSE 10 * DigitsValue(SubSeq(str, 1, Len(str) - 1))
         + DigitOf(SubSeq(str, Len(str), Len(str)))
Atoi(str) ==
    LET signed == Len(str) > 0 /\ SubSeq(str, 1, 1) \in {"-", "+"}
        digits == IF signed THEN SubSeq(str, 2, Len(str)) ELSE str
    IN  IF digits = "" \/ \E i \in 1..Len(digits) : ~IsDigit(SubSeq(digits, i, i))
        THEN [ok |-> FALSE, value |-> 0]
        ELSE [ok |-> TRUE,
              value |-> IF SubSeq(str, 1, 1) = "-" THEN 0 - DigitsValue(digits)
                        ELSE DigitsValue(digits)]

\* BitcoinHandler.GetTransactions that takes every offset that parses
HandleGetTransactionsAnyOffset(addrs, txs, address, limitStr, offsetStr, scan) ==
    LET l == Atoi(limitStr)
        o == Atoi(offsetStr)
    IN  GetTransactions(addrs, txs, address,
                        IF limitStr # "" /\ l.ok /\ l.value > 0 THEN l.value ELSE 50,
                        IF offsetStr # "" /\ o.ok THEN o.value ELSE 0,
                        scan)
\* BitcoinHandler.GetTransactions: the limit and offset query parameters
HandleGetTransactions(addrs, txs, address, limitStr, offsetStr, scan) ==
    LET l == Atoi(limitStr)
        o == Atoi(offsetStr)
    IN  GetTransactions(addrs, txs, address,
                        IF limitStr # "" /\ l.ok /\ l.value > 0 THEN l.value ELSE 50,
                        IF offsetStr # "" /\ o.ok /\ o.value >= 0 THEN o.value ELSE 0,
                        scan)

\* AddAddress that validates the address after the insert and the first sync
AddAddressValidatesLate(addrs, txs, address, label, resp, t) ==
    LET added == RepoAddAddress(addrs, address, label, t)
        sync == SyncAddress(added.addresses, txs, address, resp, t)
    IN  IF RepoGetAddress(addrs, address) # {}
        THEN [err |-> "already_tracked", fetched |-> FALSE, savedCount |-> 0,
              addresses |-> addrs, transactions |-> txs]
        ELSE IF ~IsValidAddress(address)
        THEN [sync EXCEPT !.err = "invalid"]
        ELSE [sync EXCEPT !.err = "nil"]
\* AddAddress without the GetAddress check that comes before the insert
AddAddressNoCheck(addrs, txs, address, label, resp, t) ==
    LET added == RepoAddAddress(addrs, address, label, t)
        sync == SyncAddress(added.addresses, txs, address, resp, t)
    IN  IF ~IsValidAddress(address)
        THEN [err |-> "invalid", fetched |-> FALSE, savedCount |-> 0,
              addresses |-> addrs, transactions |-> txs]
        ELSE IF added.err # "nil"
        THEN [err |-> added.err, fetched |-> FALSE, savedCount |-> 0,
              addresses |-> addrs, transactions |-> txs]
        ELSE [sync EXCEPT !.err = "nil"]
\* BitcoinService.AddAddress; resp answers the initial sync, whose error is
\* printed and dropped
AddAddress(addrs, txs, address, label, resp, t) ==
    IF ~IsValidAddress(address)
    THEN [err |-> "invalid", fetched |-> FALSE, savedCount |-> 0,
          addresses |-> addrs, transactions |-> txs]
    ELSE IF RepoGetAddress(addrs, address) # {}
    THEN [err |-> "already_tracked", fetched |-> FALSE, savedCount |-> 0,
          addresses |-> addrs, transactions |-> txs]
    ELSE LET added == RepoAddAddress(addrs, address, label, t)
         IN  IF added.err # "nil"
             THEN [err |-> added.err, fetched |-> FALSE, savedCount |-> 0,
                   addresses |-> addrs, transactions |-> txs]
             ELSE [SyncAddress(added.addresses, txs, address, resp, t)
                      EXCEPT !.err = "nil"]

\* BitcoinService.AddAddress over a store that can fail: lookupFails says that
\* repo.GetAddress returns an error other than sql.ErrNoRows; the condition
\* err == nil && existingAddr != nil is then false and the insert is tried
AddAddressOverStore(addrs, txs, address, label, resp, t, lookupFails) ==
    IF ~IsValidAddress(address)
    THEN [err |-> "invalid", fetched |-> FALSE, savedCount |-> 0,
          addresses |-> addrs, transactions |-> txs]
    ELSE IF ~lookupFails /\ RepoGetAddress(addrs, address) # {}
    THEN [err |-> "already_tracked", fetched |-> FALSE, savedCount |-> 0,
          addresses |-> addrs, transactions |-> txs]
    ELSE LET added == RepoAddAddress(addrs, address, label, t)
         IN  IF added.err # "nil"
             THEN [err |-> added.err, fetched |-> FALSE, savedCount |-> 0,
                   addresses |-> addrs, transactions |-> txs]
             ELSE [SyncAddress(added.addresses, txs, address, resp, t)
                      EXCEPT !.err = "nil"]

\* the balance GetAllAddresses puts in place of one that could not be computed
ZeroBalance(address) ==
    [Address |-> address, ConfirmedBalance |-> 0, UnconfirmedBalance |-> 0,
     TotalBalance |-> 0]

\* BitcoinService.GetAllAddresses over a store that can fail: listFails says
\* that repo.GetAllAddresses returns an error, failing holds the addresses
\* for which repo.GetBalance returns one
GetAllAddresses(addrs, txs, listing, listFails, failing) ==
    IF listFails
    THEN [err |-> "list_failed", list |-> <<>>]
    ELSE [err |-> "nil",
          list |-> [i \in DOMAIN listing |->
                      [Address |-> CHOOSE r \in AddrRowsOf(addrs, listing[i]) : TRUE,
                       Balance |-> IF listing[i] \in failing
                                   THEN ZeroBalance(listing[i])
                                   ELSE CalculateBalance(txs, listing[i])]]]

\* BitcoinService.GetAddress over a store that can fail: each of its two steps
\* returns the error of the repository
GetAddress(addrs, txs, address, lookupFails, balanceFails) ==
    IF lookupFails \/ RepoGetAddress(addrs, address) = {}
    THEN [err |-> "not_found", list |-> <<>>]
    ELSE IF balanceFails
    THEN [err |-> "balance_failed", list |-> <<>>]
    ELSE [err |-> "nil",
          list |-> <<[Address |-> CHOOSE r \in AddrRowsOf(addrs, address) : TRUE,
                      Balance |-> CalculateBalance(txs, address)]>>]

\* the loop of SyncAllAddresses leaving at the first SyncAddress error
RECURSIVE SyncEachAbort(_, _, _, _, _)
SyncEachAbort(addrs, txs, listing, answers, t) ==
    IF listing = <<>>
    THEN [addresses |-> addrs, transactions |-> txs, errors |-> 0, fetched |-> {},
          savedCount |-> 0]
    ELSE LET a == Head(listing)
             sync == SyncAddress(addrs, txs, a, answers[a], t)
             rest == SyncEachAbort(sync.addresses, sync.transactions, Tail(listing),
                                   answers, t)
         IN  IF sync.err # "nil"
             THEN [addresses |-> sync.addresses, transactions |-> sync.transactions,
                   errors |-> 1, fetched |-> IF sync.fetched THEN {a} ELSE {},
                   savedCount |-> sync.savedCount]
             ELSE [rest EXCEPT !.fetched = @ \cup {a},
                               !.savedCount = @ + sync.savedCount]
\* the loop of SyncAllAddresses over the listing, answers[a] the adapter's
\* answer for address a; errors counts the SyncAddress calls that failed
RECURSIVE SyncEach(_, _, _, _, _)
SyncEach(addrs, txs, listing, answers, t) ==
    IF listing = <<>>
    THEN [addresses |-> addrs, transactions |-> txs, errors |-> 0, fetched |-> {},
          savedCount |-> 0]
    ELSE LET a == Head(listing)
             sync == SyncAddress(addrs, txs, a, answers[a], t)
             rest == SyncEach(sync.addresses, sync.transactions, Tail(listing), answers, t)
         IN  [addresses |-> rest.addresses, transactions |-> rest.transactions,
              errors |-> rest.errors + (IF sync.err # "nil" THEN 1 ELSE 0),
              fetched |-> rest.fetched \cup (IF sync.fetched THEN {a} ELSE {}),
              savedCount |-> rest.savedCount + sync.savedCount]

\* BitcoinService.SyncAllAddresses over one listing of the registry
SyncAllAddresses(addrs, txs, listing, answers, t) ==
    LET all == SyncEach(addrs, txs, listing, answers, t)
    IN  [err |-> IF all.errors > 0 THEN "sync_errors" ELSE "nil",
         count |-> all.errors, fetched |-> all.fetched, savedCount |-> all.savedCount,
         addresses |-> all.addresses, transactions |-> all.transactions]

Registered(addrs) == {r.address : r \in Rows(addrs)}

\* what a call returned: its error, the number the aggregate error of
\* SyncAllAddresses carries, the addresses the adapter was asked for, the
\* count of new transactions SyncAddress prints, the balance GetBalance
\* returns, the page GetTransactions returns with the limit and offset it
\* asked the store for, the addresses with balance GetAllAddresses and
\* GetAddress return, and the repository calls that failed during the call
NoBalance == [Address |-> "", ConfirmedBalance |-> 0, UnconfirmedBalance |-> 0,
              TotalBalance |-> 0]
NoQuery == [limitStr |-> "", offsetStr |-> "", asked |-> FALSE, limit |-> 0,
            offset |-> 0]
NoCall == [op |-> "none", address |-> "", err |-> "nil", count |-> 0,
           fetched |-> {}, savedCount |-> 0, balance |-> NoBalance,
           query |-> NoQuery, page |-> <<>>, list |-> <<>>, faults |-> {}]

\* ------------------------------------------------------------------ models
\* APIResponse: Data is <<>> for a nil interface value and <<d>> for the
\* value d; Error and Message are "" when they are not set

\* MessageResponse that leaves Success at the zero value of bool
MessageResponseUnset(message) ==
    [Success |-> FALSE, Data |-> <<>>, Error |-> "", Message |-> message]
ErrorResponse(message) ==
    [Success |-> FALSE, Data |-> <<>>, Error |-> message, Message |-> ""]
SuccessResponse(data) ==
    [Success |-> TRUE, Data |-> <<data>>, Error |-> "", Message |-> ""]
MessageResponse(message) ==
    [Success |-> TRUE, Data |-> <<>>, Error |-> "", Message |-> message]

\* the body a handler of BitcoinHandler writes for the service call `call`:
\* writeError with the error of the call, else writeSuccess with what the call
\* returned or writeMessage with the handler's text
HandlerResponse(call) ==
    IF call.err # "nil" THEN ErrorResponse(call.err)
    ELSE IF call.op = "AddAddress" THEN SuccessResponse(call.address)
    ELSE IF call.op = "GetAllAddresses" THEN SuccessResponse(call.list)
    ELSE IF call.op = "GetAddress" THEN SuccessResponse(call.list[1])
    ELSE IF call.op = "GetBalance" THEN SuccessResponse(call.balance)
    ELSE IF call.op = "GetTransactions" THEN SuccessResponse(call.page)
    ELSE IF call.op = "RemoveAddress" THEN MessageResponse("Address removed successfully")
    ELSE IF call.op = "SyncAddress"
    THEN MessageResponse("Address synchronized successfully")
    ELSE MessageResponse("All addresses synchronized successfully")

\* a worker between calls
Idle == [pc |-> "idle", op |-> "none", address |-> "", label |-> "", err |-> "nil",
         fetched |-> <<>>, i |-> 1, t |-> 0, queue |-> <<>>, errors |-> 0,
         lost |-> FALSE, missed |-> FALSE, balance |-> ZeroBalance(""), seen |-> {},
         ticker |-> 0]

Init ==
    /\ addresses = EmptyBag
    /\ transactions = EmptyBag
    /\ now = 1
    /\ last = NoCall
    /\ wk = [w \in Workers |-> Idle]

\* the clock advances
Tick ==
    /\ now < MaxTime
    /\ now' = now + 1
    /\ UNCHANGED <<addresses, transactions, last, wk>>

\* a call of AddAddress(address, label)
AddAddressCall(address, label, resp) ==
    LET r == AddAddress(addresses, transactions, address, label, resp, now)
    IN  /\ addresses' = r.addresses
        /\ transactions' = r.transactions
        /\ last' = [NoCall EXCEPT !.op = "AddAddress", !.address = address,
                        !.err = r.err,
                        !.fetched = IF r.fetched THEN {address} ELSE {},
                        !.savedCount = r.savedCount]
        /\ UNCHANGED <<now, wk>>

\* a call of RemoveAddress(address)
RemoveAddressCall(address) ==
    LET r == RepoRemoveAddress(addresses, transactions, address)
    IN  /\ addresses' = r.addresses
        /\ transactions' = r.transactions
        /\ last' = [NoCall EXCEPT !.op = "RemoveAddress", !.address = address,
                                  !.err = r.err]
        /\ UNCHANGED <<now, wk>>

\* a call of SyncAddress(address)
SyncAddressCall(address, resp) ==
    LET r == SyncAddress(addresses, transactions, address, resp, now)
    IN  /\ addresses' = r.addresses
        /\ transactions' = r.transactions
        /\ last' = [NoCall EXCEPT !.op = "SyncAddress", !.address = address,
                        !.err = r.err,
                        !.fetched = IF r.fetched THEN {address} ELSE {},
                        !.savedCount = r.savedCount]
        /\ UNCHANGED <<now, wk>>

\* a call of SyncAllAddresses()
SyncAllAddressesCall(listing, answers) ==
    LET r == SyncAllAddresses(addresses, transactions, listing, answers, now)
    IN  /\ addresses' = r.addresses
        /\ transactions' = r.transactions
        /\ last' = [NoCall EXCEPT !.op = "SyncAllAddresses", !.err = r.err,
                        !.count = r.count, !.fetched = r.fetched,
                        !.savedCount = r.savedCount]
        /\ UNCHANGED <<now, wk>>

\* a call of GetBalance(address)
GetBalanceCall(address) ==
    LET r == GetBalance(addresses, transactions, address)
    IN  /\ addresses' = r.addresses
        /\ transactions' = r.transactions
        /\ last' = [NoCall EXCEPT !.op = "GetBalance", !.address = address,
                        !.err = r.err,
                        !.balance = IF r.err = "nil" THEN r.balance ELSE NoBalance]
        /\ UNCHANGED <<now, wk>>

\* GET /addresses/{address}/transactions?limit=limitStr&offset=offsetStr,
\* the engine visiting the rows in the order scan
GetTransactionsCall(address, limitStr, offsetStr, scan) ==
    LET r == HandleGetTransactions(addresses, transactions, address, limitStr,
                                   offsetStr, scan)
    IN  /\ last' = [NoCall EXCEPT !.op = "GetTransactions", !.address = address,
                        !.err = r.err,
                        !.query = [limitStr |-> limitStr, offsetStr |-> offsetStr,
                                   asked |-> r.asked, limit |-> r.limit,
                                   offset |-> r.offset],
                        !.page = r.page]
        /\ UNCHANGED <<addresses, transactions, now, wk>>

\* the calls a client can make with addresses A, labels L and an upstream that
\* answers from R
NextOver(A, L, R) ==
    \/ Tick
    \/ \E a \in A, l \in L :
          IF IsValidAddress(a) /\ RepoGetAddress(addresses, a) = {}
          THEN \E resp \in R : AddAddressCall(a, l, resp)
          ELSE AddAddressCall(a, l, FetchFail)
    \/ \E a \in A : RemoveAddressCall(a)
    \/ \E a \in A :
          IF RepoGetAddress(addresses, a) # {}
          THEN \E resp \in R : SyncAddressCall(a, resp)
          ELSE SyncAddressCall(a, FetchFail)
    \/ \E listing \in RepoGetAllAddresses(addresses) :
          \E answers \in [Registered(addresses) -> R] :
             SyncAllAddressesCall(listing, answers)

\* one tracked address, two labels, the three-event ledger
Next == NextOver({AddrA, AddrBad}, Labels, LedgerResponses)
Spec == Init /\ [][Next]_vars

\* two tracked addresses
NextTwo == NextOver(Addrs, {""}, PendingResponses)
SpecTwo == Init /\ [][NextTwo]_vars

\* two tracked addresses that have each received the same transaction
NextAll == NextOver(Addrs, {""}, DepositResponses)
SpecAll == Init /\ [][NextAll]_vars

\* the values of the limit and offset query parameters
LimitStrings == {"", "abc", "-1", "0", "1", "2", "100", "101"}
OffsetStrings == {"", "x1", "-1", "1", "2"}
\* one tracked address, with the reads; the client sends these of the values
SentLimits == {"", "1", "101"}
SentOffsets == {"", "-1", "1"}
ReadResponses == ResponsesOver(LedgerEvents, MaxEvents) \cup {FetchOk(ScenarioEvents)}
NextRead ==
    \/ NextOver({AddrA}, {""}, ReadResponses)
    \/ \E a \in {AddrA, AddrBad} : GetBalanceCall(a)
    \/ \E a \in {AddrA, AddrBad}, limitStr \in SentLimits,
          offsetStr \in SentOffsets, scan \in ScanOrders(transactions) :
          GetTransactionsCall(a, limitStr, offsetStr, scan)
SpecRead == Init /\ [][NextRead]_vars

\* --------------------------------------------------------------- SpecStore
\* a call of AddAddress(address, label) during which the lookup may fail
AddAddressOverStoreCall(address, label, resp, lookupFails) ==
    LET r == AddAddressOverStore(addresses, transactions, address, label, resp, now,
                                 lookupFails)
    IN  /\ addresses' = r.addresses
        /\ transactions' = r.transactions
        /\ last' = [NoCall EXCEPT !.op = "AddAddress", !.address = address,
                        !.err = r.err,
                        !.fetched = IF r.fetched THEN {address} ELSE {},
                        !.savedCount = r.savedCount,
                        !.faults = IF lookupFails THEN {"GetAddress"} ELSE {}]
        /\ UNCHANGED <<now, wk>>

\* a call of GetAllAddresses() during which the listing or balances may fail
GetAllAddressesCall(listing, listFails, failing) ==
    LET r == GetAllAddresses(addresses, transactions, listing, listFails, failing)
    IN  /\ last' = [NoCall EXCEPT !.op = "GetAllAddresses", !.err = r.err,
                        !.list = r.list,
                        !.faults = IF listFails THEN {"GetAllAddresses"}
                                   ELSE IF failing # {} THEN {"GetBalance"} ELSE {}]
        /\ UNCHANGED <<addresses, transactions, now, wk>>

\* a call of GetAddress(address) during which either step may fail; the
\* balance is not asked for when the lookup has failed
GetAddressCall(address, lookupFails, balanceFails) ==
    LET r == GetAddress(addresses, transactions, address, lookupFails, balanceFails)
    IN  /\ last' = [NoCall EXCEPT !.op = "GetAddress", !.address = address,
                        !.err = r.err, !.list = r.list,
                        !.faults = IF lookupFails THEN {"GetAddress"}
                                   ELSE IF balanceFails /\ r.err # "not_found"
                                   THEN {"GetBalance"} ELSE {}]
        /\ UNCHANGED <<addresses, transactions, now, wk>>

\* two tracked addresses, every call but SyncAllAddresses, over a store whose
\* statements can fail
NextStore ==
    \/ Tick
    \/ \E a \in Addrs, resp \in DepositResponses, lookupFails \in BOOLEAN :
          AddAddressOverStoreCall(a, "", resp, lookupFails)
    \/ \E a \in Addrs : RemoveAddressCall(a)
    \/ \E a \in Addrs :
          IF RepoGetAddress(addresses, a) # {}
          THEN \E resp \in DepositResponses : SyncAddressCall(a, resp)
          ELSE SyncAddressCall(a, FetchFail)
    \/ \E listing \in RepoGetAllAddresses(addresses), listFails \in BOOLEAN :
          \E failing \in SUBSET Registered(addresses) :
             GetAllAddressesCall(listing, listFails, failing)
    \/ \E a \in Addrs, lookupFails \in BOOLEAN, balanceFails \in BOOLEAN :
          GetAddressCall(a, lookupFails, balanceFails)
    \/ \E a \in Addrs : GetBalanceCall(a)
    \/ \E a \in Addrs, scan \in ScanOrders(transactions) :
          GetTransactionsCall(a, "", "", scan)
SpecStore == Init /\ [][NextStore]_vars

\* ------------------------------------------------------------ SpecValidate
\* str followed by as many "q" as it takes to make n characters
RECURSIVE Fill(_, _)
Fill(str, n) == IF Len(str) >= n THEN str ELSE Fill(str \o "q", n)

\* how an address string can start, and the lengths around the two limits
SamplePrefixes == {"1", "3", "bc1", "2", "bc", "b1", "x"}
SampleLengths == {25, 26, 27, 61, 62, 63}
\* the addresses of TestIsValidAddress
TestAddresses == {"bc1q0sg9rdst255gtldsmcf8rk0764avqy2h2ksqs5", AddrB, AddrA,
                  "invalid", "", AddrBad}
\* the addresses a client sends in SpecValidate
SentPrefixes == {"1", "bc1", "bc"}
SentLengths == {25, 26, 62, 63}
SentAddresses == {Fill(p, n) : p \in SentPrefixes, n \in SentLengths} \cup {""}

\* registrations and removals of addresses of every shape, the upstream down
NextValidate ==
    \/ Tick
    \/ \E a \in SentAddresses : AddAddressCall(a, "", FetchFail)
    \/ \E a \in SentAddresses : RemoveAddressCall(a)
SpecValidate == Init /\ [][NextValidate]_vars

\* ------------------------------------------------------------ SpecClassify
\* an event that leaves the balance as it was and is in no block yet
EvZero == [hash |-> "h0", time |-> 1, balance_change |-> 0, block_id |-> 0]
ClassifyEvents == {EvZero, Ev2, Ev3}
ClassifyResponses == ResponsesOver(ClassifyEvents, MaxEvents)

\* two tracked addresses and an upstream that shows a spend in a block, a
\* pending deposit and a pending event of balance change 0
NextClassify ==
    \/ Tick
    \/ \E a \in Addrs : AddAddressCall(a, "", FetchFail)
    \/ \E a \in Addrs : RemoveAddressCall(a)
    \/ \E a \in Addrs :
          IF RepoGetAddress(addresses, a) # {}
          THEN \E resp \in ClassifyResponses : SyncAddressCall(a, resp)
          ELSE SyncAddressCall(a, FetchFail)
SpecClassify == Init /\ [][NextClassify]_vars

\* -------------------------------------------------------------- SpecWindow
\* one tracked address and an upstream whose window can show h1 and h3, h3 as
\* pending, as in its block, or as both
WindowEvents == {Ev1, Ev3, Ev4}
WindowResponses == ResponsesOver(WindowEvents, MaxWindow)
NextWindow == NextOver({AddrA}, {""}, WindowResponses)
SpecWindow == Init /\ [][NextWindow]_vars

\* --------------------------------------------------------------- SpecFault
\* one tracked address, the window of SpecWindow, and a store that can fail
\* at a statement of the save loop
LoopStatements == {"TransactionExists", "SaveTransaction"}

\* a call of SyncAddress(address) during which the statement kind fails at
\* the transaction failAt of the answer
SyncAddressOverStoreCall(address, resp, failAt, kind) ==
    LET r == SyncAddressOverStore(addresses, transactions, address, resp, now,
                                  failAt, kind)
    IN  /\ addresses' = r.addresses
        /\ transactions' = r.transactions
        /\ last' = [NoCall EXCEPT !.op = "SyncAddress", !.address = address,
                        !.err = r.err,
                        !.fetched = IF r.fetched THEN {address} ELSE {},
                        !.savedCount = r.savedCount,
                        !.faults = IF r.err \in {"exists_failed", "save_failed"}
                                   THEN {kind} ELSE {}]
        /\ UNCHANGED <<now, wk>>

NextFault ==
    \/ Tick
    \/ AddAddressCall(AddrA, "", FetchFail)
    \/ RemoveAddressCall(AddrA)
    \/ \E resp \in WindowResponses : SyncAddressCall(AddrA, resp)
    \/ \E resp \in WindowResponses, failAt \in 1..MaxWindow, kind \in LoopStatements :
          SyncAddressOverStoreCall(AddrA, resp, failAt, kind)
SpecFault == Init /\ [][NextFault]_vars

\* --------------------------------------------------------------- SpecRetry
\* the window a healthy upstream returns for an address
HealthyWindow == <<Ev1, Ev2>>
RetryResponses == {FetchFail, FetchOk(HealthyWindow)}

\* SyncAllAddresses as its two callers run it: the handler of POST /sync
\* ("SyncAllAddresses"), and one turn of the loop of startBackgroundSync
\* ("startBackgroundSync"): the ticker fires, SyncAllAddresses runs, its error
\* is logged and the loop goes on
BackgroundSync(caller, listing, answers) ==
    LET r == SyncAllAddresses(addresses, transactions, listing, answers, now)
    IN  /\ addresses' = r.addresses
        /\ transactions' = r.transactions
        /\ last' = [NoCall EXCEPT !.op = caller, !.err = r.err,
                        !.count = r.count, !.fetched = r.fetched,
                        !.savedCount = r.savedCount]
        /\ UNCHANGED <<now, wk>>

\* a turn of the loop at which the upstream answers for AddrA
HealthyTick ==
    \E listing \in RepoGetAllAddresses(addresses) :
       \E answers \in [Registered(addresses) -> RetryResponses] :
          /\ AddrA \in Registered(addresses) => answers[AddrA].ok
          /\ BackgroundSync("startBackgroundSync", listing, answers)

\* two tracked addresses, the calls of the clients and the background loop;
\* the ticker keeps firing, and the upstream answers for AddrA at some turn
\* again and again
NextRetry ==
    \/ Tick
    \/ \E a \in Addrs :
          IF IsValidAddress(a) /\ RepoGetAddress(addresses, a) = {}
          THEN \E resp \in RetryResponses : AddAddressCall(a, "", resp)
          ELSE AddAddressCall(a, "", FetchFail)
    \/ \E a \in Addrs : RemoveAddressCall(a)
    \/ \E a \in Addrs :
          IF RepoGetAddress(addresses, a) # {}
          THEN \E resp \in RetryResponses : SyncAddressCall(a, resp)
          ELSE SyncAddressCall(a, FetchFail)
    \/ \E listing \in RepoGetAllAddresses(addresses) :
          \E answers \in [Registered(addresses) -> RetryResponses] :
             \E caller \in {"SyncAllAddresses", "startBackgroundSync"} :
                BackgroundSync(caller, listing, answers)
\* ENABLED <<HealthyTick>>_vars written out: some healthy turn would change
\* the tables or the record of the last call
HealthyTickPending ==
    \E listing \in RepoGetAllAddresses(addresses) :
       \E answers \in [Registered(addresses) -> RetryResponses] :
          /\ AddrA \in Registered(addresses) => answers[AddrA].ok
          /\ LET r == SyncAllAddresses(addresses, transactions, listing, answers, now)
             IN  \/ r.addresses # addresses
                 \/ r.transactions # transactions
                 \/ last # [NoCall EXCEPT !.op = "startBackgroundSync",
                                !.err = r.err, !.count = r.count,
                                !.fetched = r.fetched,
                                !.savedCount = r.savedCount]
\* weak fairness of HealthyTick, WF_vars(HealthyTick), in its unfolded form
SpecRetry ==
    /\ Init
    /\ [][NextRetry]_vars
    /\ ([]<>(~HealthyTickPending) \/ []<><<HealthyTick>>_vars)

\* ---------------------------------------------------------------- SpecConc
\* A worker runs its call one repository or adapter statement at a time; the
\* statements of the other worker come in between.

Resting(w) == wk[w].pc \in {"idle", "done"}

Done(s, err) == [s EXCEPT !.pc = "done", !.err = err]

\* SyncAllAddresses leaving its loop at the first SyncAddress that fails
ReturnAbort(s, err) ==
    IF s.op = "SyncAddress" THEN Done(s, err)
    ELSE IF s.op = "AddAddress" THEN Done(s, "nil")
    ELSE LET errors == s.errors + (IF err # "nil" THEN 1 ELSE 0)
             queue == Tail(s.queue)
         IN  IF queue = <<>> \/ errors > 0
             THEN Done([s EXCEPT !.errors = errors, !.queue = <<>>],
                       IF errors > 0 THEN "sync_errors" ELSE "nil")
             ELSE [s EXCEPT !.errors = errors, !.queue = queue,
                            !.address = Head(queue), !.pc = "sync_get",
                            !.fetched = <<>>, !.i = 1, !.lost = FALSE,
                            !.missed = FALSE]
\* SyncAddress returns err to the call that runs it
Return(s, err) ==
    IF s.op = "SyncAddress" THEN Done(s, err)
    ELSE IF s.op = "AddAddress" THEN Done(s, "nil")
    ELSE LET errors == s.errors + (IF err # "nil" THEN 1 ELSE 0)
             queue == Tail(s.queue)
         IN  IF queue = <<>>
             THEN Done([s EXCEPT !.errors = errors, !.queue = queue],
                       IF errors > 0 THEN "sync_errors" ELSE "nil")
             ELSE [s EXCEPT !.errors = errors, !.queue = queue,
                            !.address = Head(queue), !.pc = "sync_get",
                            !.fetched = <<>>, !.i = 1, !.lost = FALSE,
                            !.missed = FALSE]

\* the workers after a statement that left the transactions table as txs: a
\* GetBalance in flight has one more state of the table behind it (seen holds
\* the balance of its address in each state of the table since its call)
Seen(workers, txs) ==
    [v \in Workers |->
        IF workers[v].pc \in {"bal_confirmed", "bal_unconfirmed"}
        THEN [workers[v] EXCEPT !.seen = @ \cup {CalculateBalance(txs, workers[v].address)}]
        ELSE workers[v]]

\* the save loop moves to transaction i, or leaves the loop
LoopAt(s, i) ==
    [s EXCEPT !.i = i, !.pc = IF i > Len(s.fetched) THEN "sync_now" ELSE "sync_exists"]

\* AddAddress is called: IsValidAddress, then GetAddress
ConcAddAddress(w, address, label) ==
    LET s == [Idle EXCEPT !.op = "AddAddress", !.address = address, !.label = label]
    IN  /\ Resting(w)
        /\ wk' = [wk EXCEPT ![w] =
                IF ~IsValidAddress(address) THEN Done(s, "invalid")
                ELSE IF RepoGetAddress(addresses, address) # {}
                     THEN Done(s, "already_tracked")
                     ELSE [s EXCEPT !.pc = "add_insert"]]
        /\ UNCHANGED <<addresses, transactions, now, last>>

\* AddAddress: repo.AddAddress
ConcAddInsert(w) ==
    LET s == wk[w]
        added == RepoAddAddress(addresses, s.address, s.label, now)
    IN  /\ s.pc = "add_insert"
        /\ addresses' = added.addresses
        /\ wk' = [wk EXCEPT ![w] = IF added.err # "nil" THEN Done(s, added.err)
                                    ELSE [s EXCEPT !.pc = "sync_get"]]
        /\ UNCHANGED <<transactions, now, last>>

\* RemoveAddress is called: one DELETE
ConcRemoveAddress(w, address) ==
    LET removed == RepoRemoveAddress(addresses, transactions, address)
    IN  /\ Resting(w)
        /\ addresses' = removed.addresses
        /\ transactions' = removed.transactions
        /\ wk' = [wk EXCEPT ![w] =
                Done([Idle EXCEPT !.op = "RemoveAddress", !.address = address],
                     removed.err)]
        /\ UNCHANGED <<now, last>>

\* SyncAddress is called: GetAddress
ConcSyncAddress(w, address) ==
    LET s == [Idle EXCEPT !.op = "SyncAddress", !.address = address]
    IN  /\ Resting(w)
        /\ wk' = [wk EXCEPT ![w] =
                IF RepoGetAddress(addresses, address) = {} THEN Done(s, "not_found")
                ELSE [s EXCEPT !.pc = "sync_fetch"]]
        /\ UNCHANGED <<addresses, transactions, now, last>>

\* SyncAllAddresses is called: GetAllAddresses
ConcSyncAllAddresses(w) ==
    /\ Resting(w)
    /\ \E listing \in RepoGetAllAddresses(addresses) :
          wk' = [wk EXCEPT ![w] =
                LET s == [Idle EXCEPT !.op = "SyncAllAddresses", !.queue = listing]
                IN  IF listing = <<>> THEN Done(s, "nil")
                    ELSE [s EXCEPT !.address = Head(listing), !.pc = "sync_get"]]
    /\ UNCHANGED <<addresses, transactions, now, last>>

\* SyncAddress run by AddAddress or SyncAllAddresses: GetAddress
ConcSyncGet(w) ==
    LET s == wk[w]
    IN  /\ s.pc = "sync_get"
        /\ wk' = [wk EXCEPT ![w] =
                IF RepoGetAddress(addresses, s.address) = {} THEN Return(s, "not_found")
                ELSE [s EXCEPT !.pc = "sync_fetch"]]
        /\ UNCHANGED <<addresses, transactions, now, last>>

\* SyncAddress: client.GetTransactions answers resp
ConcFetch(w, resp) ==
    LET s == wk[w]
    IN  /\ s.pc = "sync_fetch"
        /\ wk' = [wk EXCEPT ![w] =
                IF ~resp.ok THEN Return(s, "upstream")
                ELSE LoopAt([s EXCEPT !.fetched =
                                ClientGetTransactions(s.address, resp.events)], 1)]
        /\ UNCHANGED <<addresses, transactions, now, last>>

\* SyncAddress: TransactionExists for transaction i
ConcExists(w) ==
    LET s == wk[w]
        tx == s.fetched[s.i]
    IN  /\ s.pc = "sync_exists"
        /\ wk' = [wk EXCEPT ![w] =
                IF TransactionExists(transactions, tx.hash, s.address)
                THEN LoopAt(s, s.i + 1)
                ELSE [s EXCEPT !.pc = "sync_save"]]
        /\ UNCHANGED <<addresses, transactions, now, last>>

\* SyncAddress: SaveTransaction for transaction i
ConcSave(w) ==
    LET s == wk[w]
        tx == s.fetched[s.i]
        saved == SaveTransaction(addresses, transactions, tx)
    IN  /\ s.pc = "sync_save"
        /\ transactions' = saved.transactions
        /\ wk' = Seen([wk EXCEPT ![w] =
                IF saved.err # "nil" THEN Return(s, saved.err)
                ELSE LoopAt([s EXCEPT !.lost =
                               s.lost \/ TransactionExists(transactions, tx.hash, tx.address)],
                            s.i + 1)], saved.transactions)
        /\ UNCHANGED <<addresses, now, last>>

\* SyncAddress: time.Now(), the argument of UpdateLastSynced
ConcNow(w) ==
    LET s == wk[w]
    IN  /\ s.pc = "sync_now"
        /\ wk' = [wk EXCEPT ![w] = [s EXCEPT !.pc = "sync_mark", !.t = now]]
        /\ UNCHANGED <<addresses, transactions, now, last>>

\* SyncAddress: UpdateLastSynced, and the return; Exec returns no error when
\* the UPDATE matches no row (missed), and its sql.Result is dropped
ConcMark(w) ==
    LET s == wk[w]
    IN  /\ s.pc = "sync_mark"
        /\ addresses' = RepoUpdateLastSynced(addresses, s.address, s.t)
        /\ wk' = [wk EXCEPT ![w] =
                Return([s EXCEPT !.missed = RepoGetAddress(addresses, s.address) = {}],
                       "nil")]
        /\ UNCHANGED <<transactions, now, last>>

NextConc ==
    \/ Tick
    \/ \E w \in Workers : ConcAddAddress(w, AddrA, "")
    \/ \E w \in Workers : ConcAddInsert(w)
    \/ \E w \in Workers : ConcRemoveAddress(w, AddrA)
    \/ \E w \in Workers : ConcSyncAddress(w, AddrA)
    \/ \E w \in Workers : ConcSyncAllAddresses(w)
    \/ \E w \in Workers : ConcSyncGet(w)
    \/ \E w \in Workers, resp \in PendingResponses : ConcFetch(w, resp)
    \/ \E w \in Workers : ConcExists(w)
    \/ \E w \in Workers : ConcSave(w)
    \/ \E w \in Workers : ConcNow(w)
    \/ \E w \in Workers : ConcMark(w)

SpecConc == Init /\ [][NextConc]_vars

\* --------------------------------------------------------------- SpecQueue
\* worker w1 runs SyncAllAddresses over two tracked addresses, statement by
\* statement, while worker w2 registers and removes addresses; the upstream
\* is down for the initial sync of a registration
NextQueue ==
    \/ Tick
    \/ ConcSyncAllAddresses("w1")
    \/ \E w \in Workers : ConcSyncGet(w)
    \/ \E resp \in DepositResponses : ConcFetch("w1", resp)
    \/ ConcFetch("w2", FetchFail)
    \/ ConcExists("w1")
    \/ ConcSave("w1")
    \/ ConcNow("w1")
    \/ ConcMark("w1")
    \/ \E a \in Addrs : ConcAddAddress("w2", a, "")
    \/ ConcAddInsert("w2")
    \/ \E a \in Addrs : ConcRemoveAddress("w2", a)
SpecQueue == Init /\ [][NextQueue]_vars

\* ---------------------------------------------------------------- SpecSnap
\* worker w1 reads the balance of A one query at a time while worker w2
\* registers and syncs A; the upstream shows a deposit in its block and a
\* pending one

\* GetBalance is called: GetAddress
ConcGetBalance(w, address) ==
    LET s == [Idle EXCEPT !.op = "GetBalance", !.address = address]
    IN  /\ Resting(w)
        /\ wk' = [wk EXCEPT ![w] =
                IF RepoGetAddress(addresses, address) = {} THEN Done(s, "not_found")
                ELSE [s EXCEPT !.pc = "bal_confirmed",
                               !.seen = {CalculateBalance(transactions, address)}]]
        /\ UNCHANGED <<addresses, transactions, now, last>>

\* CalculateBalance: the query over confirmations >= 1
ConcConfirmed(w) ==
    LET s == wk[w]
        confirmedBalance == CalculateBalance(transactions, s.address).ConfirmedBalance
    IN  /\ s.pc = "bal_confirmed"
        /\ wk' = [wk EXCEPT ![w] =
                [s EXCEPT !.pc = "bal_unconfirmed",
                          !.balance = [ZeroBalance(s.address) EXCEPT
                                          !.ConfirmedBalance = confirmedBalance]]]
        /\ UNCHANGED <<addresses, transactions, now, last>>

\* CalculateBalance: the query over confirmations = 0, the total, the return
ConcUnconfirmed(w) ==
    LET s == wk[w]
        unconfirmedBalance == CalculateBalance(transactions, s.address).UnconfirmedBalance
    IN  /\ s.pc = "bal_unconfirmed"
        /\ wk' = [wk EXCEPT ![w] =
                Done([s EXCEPT !.balance =
                         [@ EXCEPT !.UnconfirmedBalance = unconfirmedBalance,
                                   !.TotalBalance = s.balance.ConfirmedBalance
                                                    + unconfirmedBalance]],
                     "nil")]
        /\ UNCHANGED <<addresses, transactions, now, last>>

SnapEvents == {Ev1, Ev3}
SnapResponses == ResponsesOver(SnapEvents, MaxWindow)

NextSnap ==
    \/ ConcAddAddress("w2", AddrA, "")
    \/ ConcAddInsert("w2")
    \/ ConcSyncAddress("w2", AddrA)
    \/ ConcSyncGet("w2")
    \/ \E resp \in SnapResponses : ConcFetch("w2", resp)
    \/ ConcExists("w2")
    \/ ConcSave("w2")
    \/ ConcNow("w2")
    \/ ConcMark("w2")
    \/ ConcGetBalance("w1", AddrA)
    \/ ConcConfirmed("w1")
    \/ ConcUnconfirmed("w1")
SpecSnap == Init /\ [][NextSnap]_vars

\* -------------------------------------------------------------- SpecTicker
\* worker w1 is the goroutine of startBackgroundSync, with its ticker; worker
\* w2 serves HTTP requests; both run SyncAllAddresses statement by statement

\* a loop that starts a goroutine for each tick it receives
ReceiverSpawned(w) == Resting(w)
\* the receiver of a tick: the one goroutine main starts for
\* startBackgroundSync, between two iterations of its for range ticker.C
Receiver(w) == w = "w1" /\ Resting(w)

\* the ticker sends on its channel, which holds one tick; a tick that finds
\* the channel full is dropped
TickerFire ==
    /\ wk' = [wk EXCEPT !["w1"].ticker = 1]
    /\ UNCHANGED <<addresses, transactions, now, last>>

\* a tick is received and SyncAllAddresses is called: GetAllAddresses
BackgroundReceive(w) ==
    /\ Receiver(w)
    /\ wk["w1"].ticker = 1
    /\ \E listing \in RepoGetAllAddresses(addresses) :
          LET s == [Idle EXCEPT !.op = "startBackgroundSync", !.queue = listing]
              called == IF listing = <<>> THEN Done(s, "nil")
                        ELSE [s EXCEPT !.address = Head(listing), !.pc = "sync_get"]
          IN  wk' = [v \in Workers |->
                       IF v = w THEN called ELSE [wk[v] EXCEPT !.ticker = 0]]
    /\ UNCHANGED <<addresses, transactions, now, last>>

NextTicker ==
    \/ TickerFire
    \/ \E w \in Workers : BackgroundReceive(w)
    \/ ConcAddAddress("w2", AddrA, "")
    \/ ConcAddInsert("w2")
    \/ ConcRemoveAddress("w2", AddrA)
    \/ ConcSyncAllAddresses("w2")
    \/ \E w \in Workers : ConcSyncGet(w)
    \/ \E w \in Workers, resp \in DepositResponses : ConcFetch(w, resp)
    \/ \E w \in Workers : ConcExists(w)
    \/ \E w \in Workers : ConcSave(w)
    \/ \E w \in Workers : ConcNow(w)
    \/ \E w \in Workers : ConcMark(w)
SpecTicker == Init /\ [][NextTicker]_vars

\* ------------------------------------------------------------------ claims

\* C1: in every reachable state, under any interleaving of register, remove,
\* syncOne and syncAll, also with two syncs of one address racing, no two
\* stored transaction rows share the pair (hash, address).
C1_UniqueHashAddress ==
    /\ \A r \in Rows(transactions) : transactions[r] = 1
    /\ \A r1, r2 \in Rows(transactions) :
          (r1.hash = r2.hash /\ r1.address = r2.address) => r1 = r2

\* a worker has saved a row that the other worker had stored after its check
C1_Witness ==
    \E w \in Workers : wk[w].lost /\ Rows(transactions) # {}

\* C2: in every reachable state and for every upstream answer, a successful
\* SyncAddress(addr) that is run again, then or later, with the same answer
\* succeeds and leaves the stored rows as the first run left them: the same
\* rows, each once.
C2_SyncIdempotent ==
    \A resp \in LedgerResponses, t \in now..MaxTime :
        LET first == SyncAddress(addresses, transactions, AddrA, resp, now)
            again == SyncAddress(first.addresses, first.transactions, AddrA, resp, t)
        IN  first.err = "nil"
            => /\ again.err = "nil"
               /\ again.savedCount = 0
               /\ again.transactions = first.transactions
               /\ \A r \in TxRowsOf(again.transactions, AddrA) :
                     again.transactions[r] = 1

\* a sync of an address with stored rows has returned success and saved nothing
C2_Witness ==
    /\ last.op = "SyncAddress" /\ last.err = "nil" /\ last.savedCount = 0
    /\ Cardinality(TxRowsOf(transactions, AddrA)) >= 2

\* C3: when two SyncAddress calls of one address both find the same event
\* missing before either saves it, the second save is a successful no-op: the
\* table is left as the first save made it, with the row once, and the call
\* goes on and returns success.
C3_LosingSaveIsNoOp ==
    /\ [][\A w \in Workers :
             (ConcSave(w) /\ wk[w].fetched[wk[w].i] \in Rows(transactions))
             => /\ transactions' = transactions
                /\ transactions'[wk[w].fetched[wk[w].i]] = 1
                /\ wk'[w].err = "nil"
                /\ wk'[w].pc \in {"sync_exists", "sync_now"}]_vars
    /\ [](\A w \in Workers :
             (wk[w].pc = "done" /\ wk[w].op = "SyncAddress" /\ wk[w].lost)
             => wk[w].err = "nil")

\* both workers have returned from SyncAddress with the same fetched event, one
\* of them after saving a row the other had stored
C3_Witness ==
    /\ \A w \in Workers :
          /\ wk[w].pc = "done" /\ wk[w].op = "SyncAddress" /\ wk[w].err = "nil"
          /\ wk[w].fetched = ClientGetTransactions(AddrA, <<Ev3>>)
    /\ \E w \in Workers : wk[w].lost
    /\ transactions = SetToBag({Classify(AddrA, Ev3)})

\* the watermark of a registered address
LastSynced(addrs, address) ==
    (CHOOSE r \in AddrRowsOf(addrs, address) : TRUE).last_synced

\* C4: when the adapter call of SyncAddress(addr) fails, SyncAddress returns an
\* error and the registry (the watermark of addr with it) and the transaction
\* table are as they were before the call.
C4_FetchFailureKeepsState ==
    [][(/\ last'.op = "SyncAddress"
        /\ RepoGetAddress(addresses, AddrA) # {}
        /\ SyncAddressCall(AddrA, FetchFail))
       => /\ last'.err = "upstream"
          /\ addresses' = addresses
          /\ transactions' = transactions]_vars

\* a sync has failed upstream at a time after the last successful one, with
\* rows stored
C4_Witness ==
    /\ last.op = "SyncAddress" /\ last.err = "upstream"
    /\ RepoGetAddress(addresses, AddrA) # {}
    /\ LastSynced(addresses, AddrA).Valid
    /\ LastSynced(addresses, AddrA).Time < now
    /\ TxRowsOf(transactions, AddrA) # {}

C6_LatestClassificationStored ==
    [][(last'.op = "SyncAddress" /\ last'.err = "nil") =>
       \A a \in Addrs, resp \in PendingResponses :
          SyncAddressCall(a, resp)
          => \A i \in 1..Len(resp.events) :
                (\A j \in (i + 1)..Len(resp.events) : resp.events[j].hash # resp.events[i].hash)
                => \A r \in TxRowsOf(transactions', a) :
                      r.hash = resp.events[i].hash
                      => r.confirmations = Classify(a, resp.events[i]).confirmations]_vars

\* C7: for a registered address, GetBalance returns as confirmed the sum of
\* the amounts of its rows with confirmations >= 1, as unconfirmed the sum
\* over its rows with confirmations = 0 (0 for no row), and as total their
\* sum, which is the sum over all its rows; the stored rows alone decide it.
C7_BalanceIsSumOfRows ==
    LET HashLeq(h1, h2) ==
            h1 = h2 \/ <<h1, h2>> \in {<<"h1", "h2">>, <<"h1", "h3">>, <<"h2", "h3">>}
        \* the amounts of the rows of a whose hash is in hashes, added from
        \* the last hash to the first
        RECURSIVE AmountsByHash(_, _)
        AmountsByHash(a, hashes) ==
            IF hashes = {} THEN 0
            ELSE LET h == CHOOSE x \in hashes : \A y \in hashes : HashLeq(y, x)
                     r == CHOOSE x \in TxRowsOf(transactions, a) : x.hash = h
                 IN  r.amount + AmountsByHash(a, hashes \ {h})
    IN  \A a \in Registered(addresses) :
            LET got == GetBalance(addresses, transactions, a)
                rows == TxRowsOf(transactions, a)
                hashes == {r.hash : r \in rows}
                confirmed == {r.hash : r \in {x \in rows : x.confirmations >= 1}}
                unconfirmed == {r.hash : r \in {x \in rows : x.confirmations = 0}}
            IN  /\ got.err = "nil"
                /\ got.balance.ConfirmedBalance = AmountsByHash(a, confirmed)
                /\ got.balance.UnconfirmedBalance = AmountsByHash(a, unconfirmed)
                /\ got.balance.TotalBalance =
                      got.balance.ConfirmedBalance + got.balance.UnconfirmedBalance
                /\ got.balance.TotalBalance = AmountsByHash(a, hashes)

\* a registered address holds the sent, confirmed h2 and the unconfirmed h3
C7_Witness ==
    /\ AddrA \in Registered(addresses)
    /\ transactions = SetToBag({Classify(AddrA, Ev2), Classify(AddrA, Ev3)})
    /\ GetBalance(addresses, transactions, AddrA).balance.TotalBalance = -100000000

\* C8: after RemoveAddress(addr) succeeds, no stored transaction has addr as
\* its address and GetBalance(addr) fails with not found; and an address
\* registered with no answer from the adapter, so that nothing is ingested,
\* has no stored transaction either, whatever was removed before.
C8_RemoveCascades ==
    /\ (last.op = "RemoveAddress" /\ last.err = "nil")
       => /\ TxRowsOf(transactions, last.address) = {}
          /\ GetBalance(addresses, transactions, last.address).err = "not_found"
    /\ (last.op = "AddAddress" /\ last.err = "nil" /\ last.savedCount = 0
           /\ last.address \in Registered(addresses)
           /\ LastSynced(addresses, last.address) = NullTime)
       => TxRowsOf(transactions, last.address) = {}

\* C9: from a registered A with no stored transaction, SyncAddress(A) on the
\* events h1 (+500000000, block 800000), h2 (-200000000, block 800010) and
\* h3 (+100000000, block 0) succeeds and leaves exactly three rows for A, h1
\* and h2 confirmed, h3 unconfirmed, and GetBalance(A) returns confirmed
\* 300000000, unconfirmed 100000000, total 400000000.
C9_ScenarioThreeEvents ==
    [][(/\ last'.op = "SyncAddress"
        /\ RepoGetAddress(addresses, AddrA) # {}
        /\ TxRowsOf(transactions, AddrA) = {}
        /\ SyncAddressCall(AddrA, FetchOk(ScenarioEvents)))
       => LET rows == TxRowsOf(transactions', AddrA)
              got == GetBalance(addresses', transactions', AddrA)
          IN  /\ last'.err = "nil"
              /\ Cardinality(rows) = 3
              /\ \A r \in rows : transactions'[r] = 1
              /\ {r.hash : r \in rows} = {"h1", "h2", "h3"}
              /\ \A r \in rows : r.hash \in {"h1", "h2"} => r.confirmations >= 1
              /\ \A r \in rows : r.hash = "h3" => r.confirmations = 0
              /\ got.err = "nil"
              /\ got.balance.ConfirmedBalance = 300000000
              /\ got.balance.UnconfirmedBalance = 100000000
              /\ got.balance.TotalBalance = 400000000]_vars

\* SyncAddress has just stored the three events of the scenario
C9_Witness ==
    /\ last.op = "SyncAddress" /\ last.err = "nil" /\ last.savedCount = 3
    /\ last.address = AddrA
    /\ TxRowsOf(transactions, AddrA) = {Classify(AddrA, e) : e \in LedgerEvents}

\* C10: AddAddress(address, label) for an address already registered fails
\* with already tracked, whatever the label, does not ask the adapter, and
\* leaves every row of addresses (label, created_at, last_synced) and of
\* transactions as it was.
C10_RegisterTwiceFails ==
    [][(last'.op = "AddAddress" /\ RepoGetAddress(addresses, AddrA) # {})
       => \A l \in Labels, resp \in LedgerResponses :
             AddAddressCall(AddrA, l, resp)
             => /\ last'.err = "already_tracked"
                /\ last'.fetched = {}
                /\ addresses' = addresses
                /\ transactions' = transactions]_vars

\* AddAddress has just been refused for an address that is registered with a
\* label, synced, and has stored transactions
C10_Witness ==
    /\ last.op = "AddAddress" /\ last.err = "already_tracked" /\ last.address = AddrA
    /\ \E r \in AddrRowsOf(addresses, AddrA) :
          r.label = "savings" /\ r.last_synced.Valid /\ r.created_at < now
    /\ TxRowsOf(transactions, AddrA) # {}

\* C11: AddAddress(address, label) with an address that IsValidAddress
\* rejects fails with the validation error, whatever the label and whatever
\* the upstream would answer: the adapter is not asked and neither table
\* changes.
C11_InvalidAddressRejected ==
    [][last'.op = "AddAddress" =>
       \A l \in Labels, resp \in LedgerResponses :
          AddAddressCall(AddrBad, l, resp)
          => /\ last'.err = "invalid"
             /\ last'.fetched = {}
             /\ addresses' = addresses
             /\ transactions' = transactions
             /\ AddrBad \notin Registered(addresses')
             /\ TxRowsOf(transactions', AddrBad) = {}]_vars

\* AddAddress has just refused the address with the wrong prefix, in a state
\* that has a registered address with stored transactions
C11_Witness ==
    /\ last.op = "AddAddress" /\ last.err = "invalid" /\ last.address = AddrBad
    /\ ~IsValidAddress(AddrBad)
    /\ Registered(addresses) = {AddrA}
    /\ TxRowsOf(transactions, AddrA) # {}

\* C12: RemoveAddress(address) of an address that is not registered fails
\* with not found and changes neither table; RemoveAddress of a registered
\* address succeeds and deletes the row of that address and no other row of
\* addresses.
C12_RemoveAddress ==
    [][last'.op = "RemoveAddress" =>
       \A a \in Addrs :
          RemoveAddressCall(a)
          => IF a \in Registered(addresses)
             THEN /\ last'.err = "nil"
                  /\ Rows(addresses') = Rows(addresses) \ AddrRowsOf(addresses, a)
                  /\ \A r \in Rows(addresses') : addresses'[r] = addresses[r]
                  /\ Registered(addresses') = Registered(addresses) \ {a}
             ELSE /\ last'.err = "not_found"
                  /\ addresses' = addresses
                  /\ transactions' = transactions]_vars

\* RemoveAddress of an address removed before has just failed, the other
\* address is still registered and has kept its watermark
C12_Witness ==
    /\ last.op = "RemoveAddress" /\ last.err = "not_found"
    /\ \E a \in Addrs :
          /\ last.address = a
          /\ Registered(addresses) = Addrs \ {a}
          /\ TxRowsOf(transactions, a) # {}
          /\ \A b \in Registered(addresses) : LastSynced(addresses, b).Valid

\* C13: SyncAddress(address) of an address that is not registered fails with
\* not found whatever the upstream would answer: the adapter is not asked
\* and neither table changes.
C13_SyncUnregistered ==
    [][(last'.op = "SyncAddress" /\ RepoGetAddress(addresses, AddrA) = {}) =>
       \A resp \in LedgerResponses :
          SyncAddressCall(AddrA, resp)
          => /\ last'.err = "not_found"
             /\ last'.fetched = {}
             /\ addresses' = addresses
             /\ transactions' = transactions]_vars

\* SyncAddress has just failed for an address that was registered, synced
\* and removed
C13_Witness ==
    /\ last.op = "SyncAddress" /\ last.err = "not_found" /\ last.address = AddrA
    /\ last.fetched = {}
    /\ AddrA \notin Registered(addresses)
    /\ TxRowsOf(transactions, AddrA) # {}

\* C14: in every reachable state and for every upstream answer, a
\* SyncAddress(addr) that returns success leaves last_synced of addr at the
\* time of the call, whatever the fetch held (no event, or only events stored
\* before); a failed SyncAddress leaves last_synced as it was, and an address
\* registered while the upstream is down has no last_synced.
C14_SuccessSetsWatermark ==
    \A resp \in LedgerResponses :
        IF AddrA \in Registered(addresses)
        THEN LET r == SyncAddress(addresses, transactions, AddrA, resp, now)
             IN  LastSynced(r.addresses, AddrA) =
                    IF r.err = "nil" THEN ValidTime(now)
                    ELSE LastSynced(addresses, AddrA)
        ELSE \A l \in Labels :
                LET r == AddAddress(addresses, transactions, AddrA, l, resp, now)
                IN  /\ r.err = "nil"
                    /\ LastSynced(r.addresses, AddrA) =
                          IF resp.ok THEN ValidTime(now) ELSE NullTime

\* an address registered earlier has just been synced with an empty fetch:
\* nothing is stored for it, and its last_synced is the time of this sync
C14_Witness ==
    /\ last.op = "SyncAddress" /\ last.err = "nil" /\ last.savedCount = 0
    /\ last.address = AddrA
    /\ TxRowsOf(transactions, AddrA) = {}
    /\ \E r \in AddrRowsOf(addresses, AddrA) :
          r.created_at < now /\ r.last_synced = ValidTime(now)

\* C15: for a registered address, every order in which the engine visits the
\* rows and every page size k, the pages GetTransactions(addr, k, 0), (k, k),
\* (k, 2k), ... read in one state up to the first empty page hold, put
\* together, every stored row of the address exactly once, by descending
\* timestamp, rows of equal timestamp included. The page sizes are below, at
\* and above the number of stored rows.
C15_PagesCoverAllRows ==
    \A scan \in ScanOrders(transactions), k \in {1, 2, 3, 50, 100} :
        LET Page(offset) ==
                GetTransactions(addresses, transactions, AddrA, k, offset, scan)
            RECURSIVE PagesFrom(_)
            PagesFrom(offset) ==
                IF Page(offset).page = <<>> THEN <<>>
                ELSE Page(offset).page \o PagesFrom(offset + k)
            all == PagesFrom(0)
            rows == TxRowsOf(transactions, AddrA)
        IN  AddrA \in Registered(addresses)
            => /\ Page(0).err = "nil"
               /\ Len(all) = Cardinality(rows)
               /\ {all[i] : i \in DOMAIN all} = rows
               /\ \A i, j \in DOMAIN all : i # j => all[i] # all[j]
               /\ \A i, j \in DOMAIN all : i < j => all[i].timestamp >= all[j].timestamp

\* the second page of size 1 has just been read from three stored rows, two
\* of them of the same timestamp, and holds the row of h3
C15_Witness ==
    /\ last.op = "GetTransactions" /\ last.err = "nil" /\ last.address = AddrA
    /\ last.query.limit = 1 /\ last.query.offset = 1
    /\ Cardinality(TxRowsOf(transactions, AddrA)) = 3
    /\ \E r1, r2 \in TxRowsOf(transactions, AddrA) :
          r1 # r2 /\ r1.timestamp = r2.timestamp
    /\ last.page = <<Classify(AddrA, Ev3)>>

\* C16: GET .../transactions asks the store with limit 50 when the limit
\* parameter is missing, not a number or <= 0, with 100 when it is above 100,
\* with the limit given otherwise; with offset 0 when the offset parameter is
\* missing, not a number or negative, and with the offset given otherwise.
\* The service applies the same limits to the limit it is called with.
C16_PagingNormalised ==
    LET limitAsked == [str \in LimitStrings |->
                         CASE str = "1" -> 1 [] str = "2" -> 2
                           [] str \in {"100", "101"} -> 100
                           [] OTHER -> 50]
        offsetAsked == [str \in OffsetStrings |->
                          CASE str = "1" -> 1 [] str = "2" -> 2 [] OTHER -> 0]
    IN  \A scan \in ScanOrders(transactions) :
            AddrA \in Registered(addresses)
            => /\ \A limitStr \in LimitStrings, offsetStr \in OffsetStrings :
                     LET r == HandleGetTransactions(addresses, transactions, AddrA,
                                                    limitStr, offsetStr, scan)
                     IN  /\ r.err = "nil" /\ r.asked
                         /\ r.limit = limitAsked[limitStr]
                         /\ r.offset = offsetAsked[offsetStr]
                         /\ r.offset >= 0
                         /\ Len(r.page) <= r.limit
               /\ \A limit \in {-1, 0, 1, 50, 99, 100, 101, 1000} :
                     GetTransactions(addresses, transactions, AddrA, limit, 0, scan).limit
                        = IF limit <= 0 THEN 50 ELSE IF limit > 100 THEN 100 ELSE limit

\* a listing asked with limit=101 and offset=-1 has just been answered: the
\* store was asked for 100 rows from offset 0 and returned the three rows
C16_Witness ==
    /\ last.op = "GetTransactions" /\ last.err = "nil"
    /\ last.query = [limitStr |-> "101", offsetStr |-> "-1", asked |-> TRUE,
                     limit |-> 100, offset |-> 0]
    /\ Len(last.page) = 3

\* C19: GetBalance(address), found or not, changes no row of addresses (no
\* last_synced) and no row of transactions, and a second GetBalance right
\* after it returns the same error and the same balance.
C19_GetBalanceReadsOnly ==
    [][last'.op = "GetBalance" =>
       \A a \in {AddrA, AddrBad} :
          GetBalanceCall(a)
          => LET again == GetBalance(addresses', transactions', a)
             IN  /\ addresses' = addresses
                 /\ transactions' = transactions
                 /\ again.err = last'.err
                 /\ again.err = "nil" => again.balance = last'.balance
                 /\ again.addresses = addresses
                 /\ again.transactions = transactions]_vars

\* GetBalance has just returned the balance of a synced address with the
\* three stored rows
C19_Witness ==
    /\ last.op = "GetBalance" /\ last.err = "nil" /\ last.address = AddrA
    /\ last.balance.TotalBalance = 400000000
    /\ LastSynced(addresses, AddrA).Valid
    /\ Cardinality(TxRowsOf(transactions, AddrA)) = 3

\* C17: in every reachable state, between the statements of interleaved
\* calls included, the address of every stored transaction is a registered
\* address.
C17_RowsHaveRegisteredAddress ==
    \A r \in Rows(transactions) : r.address \in Registered(addresses)

\* C18: a stored transaction whose address stays registered is still stored
\* after every step, with the hash, address, amount, block_height, timestamp
\* and type it had; only its confirmations may differ.
C18_RowsKeepTheirFields ==
    [][\A r \in Rows(transactions) :
          r.address \in Registered(addresses')
          => \E r2 \in Rows(transactions') :
                /\ r2.hash = r.hash
                /\ r2.address = r.address
                /\ r2.amount = r.amount
                /\ r2.block_height = r.block_height
                /\ r2.timestamp = r.timestamp
                /\ r2.type = r.type]_vars

\* C20: when a turn of the background loop has failed to sync AddrA, then,
\* the loop going on and the upstream answering for AddrA at some later turn,
\* either AddrA is removed or a later turn of the loop leaves every event of
\* the returned window stored for AddrA and its last_synced at the time of
\* that turn, whatever the upstream answers for the other address.
C20_RetryOnLaterTick ==
    (/\ last.op = "startBackgroundSync" /\ last.err = "sync_errors"
     /\ AddrA \in Registered(addresses)
     /\ LastSynced(addresses, AddrA) # ValidTime(now))
    ~> (\/ AddrA \notin Registered(addresses)
        \/ /\ last.op = "startBackgroundSync"
           /\ LastSynced(addresses, AddrA) = ValidTime(now)
           /\ \A i \in DOMAIN HealthyWindow :
                 TransactionExists(transactions, HealthyWindow[i].hash, AddrA))

\* a turn of the loop has synced AddrA, registered earlier, while the sync of
\* the other address failed at the same turn
C20_Witness ==
    /\ last.op = "startBackgroundSync" /\ last.err = "sync_errors" /\ last.count = 1
    /\ Registered(addresses) = Addrs
    /\ \E r \in AddrRowsOf(addresses, AddrA) :
          r.created_at < now /\ r.last_synced = ValidTime(now)
    /\ last.savedCount = Len(HealthyWindow)
    /\ Cardinality(TxRowsOf(transactions, AddrA)) = Len(HealthyWindow)
    /\ TxRowsOf(transactions, AddrB) = {}

\* C21: a call of AddAddress, GetAllAddresses or GetAddress during which a
\* repository call failed (the lookup of the address, the listing, the
\* balance of an address) returns an error.
C21_ErrorsPropagate ==
    (last.op \in {"AddAddress", "GetAllAddresses", "GetAddress"} /\ last.faults # {})
    => last.err # "nil"

\* C22: IsValidAddress(address) is true exactly when the address has 26 to
\* 62 characters and starts with "1", "3" or "bc1": for the addresses of the
\* client's test with the results the test expects, for every prefix and
\* length around the limits, and for the answer of every AddAddress call.
C22_IsValidAddress ==
    LET StartsWith(a, p) == Len(a) >= Len(p) /\ SubSeq(a, 1, Len(p)) = p
        Stated(a) == /\ Len(a) >= 26 /\ Len(a) =< 62
                     /\ StartsWith(a, "1") \/ StartsWith(a, "3") \/ StartsWith(a, "bc1")
    IN  /\ \A a \in TestAddresses :
              IsValidAddress(a) <=> a \in {"bc1q0sg9rdst255gtldsmcf8rk0764avqy2h2ksqs5",
                                           AddrB, AddrA}
        /\ \A p \in SamplePrefixes, n \in SampleLengths :
              /\ Len(Fill(p, n)) = n
              /\ IsValidAddress(Fill(p, n)) <=> (p \in {"1", "3", "bc1"} /\ n \in 26..62)
              /\ IsValidAddress(Fill(p, n)) <=> Stated(Fill(p, n))
        /\ \A a \in TestAddresses \cup SentAddresses : IsValidAddress(a) <=> Stated(a)
        /\ last.op = "AddAddress" => (last.err = "invalid" <=> ~Stated(last.address))

\* an address of 62 characters is registered and the one of 63 characters
\* with the same prefix has just been refused
C22_Witness ==
    /\ Fill("bc1", 62) \in Registered(addresses)
    /\ last.op = "AddAddress" /\ last.err = "invalid"
    /\ last.address = Fill("bc1", 63)

\* C23: ErrorResponse(m) has Success false and Error m, SuccessResponse(d) has
\* Success true and Data d, MessageResponse(m) has Success true and Message m,
\* each with the other fields unset; the response a handler writes for a call
\* has Success false exactly when the call returned an error, and carries
\* that error.
C23_ResponseConstructors ==
    LET messages == {"", "test error", "test message", "invalid", "already_tracked",
                     "not_found", "upstream", "sync_errors",
                     "Address removed successfully"}
        written == HandlerResponse(last)
    IN  /\ \A m \in messages :
              /\ ErrorResponse(m) =
                    [Success |-> FALSE, Data |-> <<>>, Error |-> m, Message |-> ""]
              /\ MessageResponse(m) =
                    [Success |-> TRUE, Data |-> <<>>, Error |-> "", Message |-> m]
        /\ \A d \in {last.page, <<>>} :
              SuccessResponse(d) =
                 [Success |-> TRUE, Data |-> <<d>>, Error |-> "", Message |-> ""]
        /\ SuccessResponse(last.balance).Success
        /\ SuccessResponse(last.balance).Data = <<last.balance>>
        /\ last.op # "none" =>
              /\ written.Success <=> last.err = "nil"
              /\ ~written.Success => (written = ErrorResponse(last.err)
                                        /\ written.Error = last.err)
              /\ written.Success => written.Error = ""

\* GetBalance of an address that is not registered has just been answered
\* with an error response, after calls that stored three rows were answered
\* with success responses
C23_Witness ==
    /\ last.op = "GetBalance" /\ last.err = "not_found"
    /\ HandlerResponse(last) = ErrorResponse("not_found")
    /\ Registered(addresses) = {}
    /\ Cardinality(Rows(transactions)) = 3

\* C24: the record made from a fetched event has type sent when the balance
\* change is below 0 and received otherwise, 0 included; confirmations 0 when
\* the block id is 0 and 6 otherwise; the balance change with its sign as
\* amount; the block id as block_height; and the synced address as address.
\* Every row SyncAddress(a) adds to the store is such a record of an event of
\* the answer, with address a, and every stored row has these properties.
C24_Classification ==
    LET Event(delta, block) ==
            [hash |-> "h", time |-> 1, balance_change |-> delta, block_id |-> block]
        Stated(a, e) ==
            [hash |-> e.hash, address |-> a, amount |-> e.balance_change,
             confirmations |-> IF e.block_id = 0 THEN 0 ELSE 6,
             block_height |-> e.block_id, timestamp |-> e.time,
             type |-> IF e.balance_change < 0 THEN "sent" ELSE "received"]
    IN  /\ \A a \in Addrs, delta \in {-200000000, -1, 0, 1, 500000000},
              block \in {0, 1, 800000} :
              LET tx == Classify(a, Event(delta, block))
              IN  /\ tx.type = "sent" <=> delta \in {-200000000, -1}
                  /\ tx.type = "received" <=> delta \in {0, 1, 500000000}
                  /\ tx.confirmations = 0 <=> block = 0
                  /\ tx.confirmations = 6 <=> block \in {1, 800000}
                  /\ tx.amount = delta /\ tx.block_height = block
                  /\ tx.address = a /\ tx.hash = "h" /\ tx.timestamp = 1
        /\ \A a \in Addrs, resp \in ClassifyResponses :
              LET sync == SyncAddress(addresses, transactions, a, resp, now)
              IN  Rows(sync.transactions) \ Rows(transactions)
                     \subseteq {Stated(a, resp.events[i]) : i \in DOMAIN resp.events}
        /\ \A r \in Rows(transactions) :
              /\ r.type = IF r.amount < 0 THEN "sent" ELSE "received"
              /\ r.confirmations = IF r.block_height = 0 THEN 0 ELSE 6
              /\ \E e \in ClassifyEvents : r = Stated(r.address, e)

\* both addresses hold the record of the event of balance change 0, received
\* and unconfirmed, and one of them the record of the spend in a block
C24_Witness ==
    /\ \A a \in Addrs :
          [hash |-> "h0", address |-> a, amount |-> 0, confirmations |-> 0,
           block_height |-> 0, timestamp |-> 1, type |-> "received"]
             \in Rows(transactions)
    /\ [hash |-> "h2", address |-> AddrB, amount |-> -200000000, confirmations |-> 6,
        block_height |-> 800010, timestamp |-> 2, type |-> "sent"] \in Rows(transactions)
    /\ last.op = "SyncAddress" /\ last.err = "nil" /\ last.savedCount = 1

\* C25: when A and B are both registered and the upstream shows each of them
\* the event of hash h1, then after SyncAddress of the one and SyncAddress of
\* the other, in either order and from any reachable state, both calls have
\* succeeded and the store holds the row (h1, A) once and the row (h1, B)
\* once; a sync of an address that has no row of h1 saves one, whether or not
\* the other address has a row of h1.
C25_DedupKeyIsThePair ==
    LET resp == FetchOk(<<Ev1>>)
        Once(txs, a) ==
            LET hit == {r \in Rows(txs) : r.hash = "h1" /\ r.address = a}
            IN  Cardinality(hit) = 1 /\ \A r \in hit : txs[r] = 1
    IN  Registered(addresses) = Addrs
        => \A a \in Addrs :
              LET b == CHOOSE x \in Addrs : x # a
                  first == SyncAddress(addresses, transactions, a, resp, now)
                  second == SyncAddress(first.addresses, first.transactions, b, resp, now)
              IN  /\ first.err = "nil" /\ second.err = "nil"
                  /\ Once(second.transactions, a)
                  /\ Once(second.transactions, b)
                  /\ first.savedCount
                        = IF TransactionExists(transactions, "h1", a) THEN 0 ELSE 1
                  /\ second.savedCount
                        = IF TransactionExists(transactions, "h1", b) THEN 0 ELSE 1

\* B has just been synced and its row of h1 saved next to the row of h1 that
\* A had already
C25_Witness ==
    /\ last.op = "SyncAddress" /\ last.address = AddrB /\ last.err = "nil"
    /\ last.savedCount = 1
    /\ Registered(addresses) = Addrs
    /\ LastSynced(addresses, AddrA).Valid
    /\ LastSynced(addresses, AddrA).Time < LastSynced(addresses, AddrB).Time
    /\ transactions = SetToBag({Classify(AddrA, Ev1), Classify(AddrB, Ev1)})

\* C26: in every reachable state, SyncAddress on two answers that hold the
\* same events in different orders leaves the same stored rows, also when an
\* answer holds two events of one hash.
C26_OrderIndependent ==
    LET Count(evs, e) == Cardinality({i \in DOMAIN evs : evs[i] = e})
        Permuted(r1, r2) ==
            /\ r1.ok /\ r2.ok
            /\ \A e \in WindowEvents : Count(r1.events, e) = Count(r2.events, e)
    IN  \A r1, r2 \in WindowResponses :
           Permuted(r1, r2)
           => SyncAddress(addresses, transactions, AddrA, r1, now).transactions
              = SyncAddress(addresses, transactions, AddrA, r2, now).transactions

\* C27: UpdateLastSynced for an address that is not registered leaves the
\* table addresses as it is: no row is added and no row changes.  When the
\* address of a running SyncAddress is removed before its UpdateLastSynced,
\* that statement changes nothing and the sync returns without an error of
\* its own: a SyncAddress or AddAddress call returns nil, and SyncAllAddresses
\* counts no error for the address.
C27_MarkOfRemovedAddress ==
    /\ [](\A a \in Addrs \cup {AddrBad}, t \in 0..MaxTime :
             a \notin Registered(addresses)
             => RepoUpdateLastSynced(addresses, a, t) = addresses)
    /\ [][\A w \in Workers :
             (ConcMark(w) /\ RepoGetAddress(addresses, wk[w].address) = {})
             => /\ addresses' = addresses
                /\ wk'[w].missed
                /\ wk'[w].pc = "done"
                /\ wk[w].op \in {"SyncAddress", "AddAddress"} => wk'[w].err = "nil"
                /\ wk'[w].errors = wk[w].errors]_vars

\* a SyncAddress has returned nil after its UpdateLastSynced matched no row:
\* the address had been removed after the sync fetched and saved h3
C27_Witness ==
    \E w \in Workers :
       /\ wk[w].pc = "done" /\ wk[w].op = "SyncAddress" /\ wk[w].err = "nil"
       /\ wk[w].missed
       /\ AddrA \notin Registered(addresses)
       /\ TxRowsOf(transactions, AddrA) # {}

\* C28: the row AddAddress inserts has no last_synced, and the address has
\* one when AddAddress returns exactly when its initial SyncAddress succeeded.
\* A step of GetAddress, GetAllAddresses, GetBalance, GetTransactions,
\* RemoveAddress or a refused AddAddress leaves the last_synced of every
\* address that is registered after it as it was, and the last_synced of an
\* address that stays registered changes only in a step of a sync that
\* fetched for that address.
C28_OnlySyncWritesWatermark ==
    /\ [](\A a \in Addrs, resp \in DepositResponses :
             LET added == RepoAddAddress(addresses, a, "", now)
                 sync == SyncAddress(added.addresses, transactions, a, resp, now)
                 r == AddAddress(addresses, transactions, a, "", resp, now)
             IN  r.err = "nil"
                 => /\ LastSynced(added.addresses, a) = NullTime
                    /\ LastSynced(r.addresses, a).Valid <=> sync.err = "nil"
                    /\ ~resp.ok => LastSynced(r.addresses, a) = NullTime)
    /\ [][(\/ last'.op \in {"GetAddress", "GetAllAddresses", "GetBalance",
                             "GetTransactions", "RemoveAddress"}
           \/ (last'.op = "AddAddress" /\ last'.err # "nil"))
          => \A a \in Registered(addresses') :
                /\ a \in Registered(addresses)
                /\ LastSynced(addresses', a) = LastSynced(addresses, a)]_vars
    /\ [][\A a \in Registered(addresses) \cap Registered(addresses') :
             LastSynced(addresses', a) # LastSynced(addresses, a)
             => /\ last'.op = "SyncAddress" /\ last'.address = a
                /\ last'.err = "nil" /\ last'.fetched = {a}
                /\ LastSynced(addresses', a) = ValidTime(now)]_vars

\* B, which has no stored row, has just been removed, and A keeps the
\* watermark of its sync at an earlier time
C28_Witness ==
    /\ last.op = "RemoveAddress" /\ last.address = AddrB /\ last.err = "nil"
    /\ Registered(addresses) = {AddrA}
    /\ LastSynced(addresses, AddrA) = ValidTime(1)
    /\ now = 2
    /\ TxRowsOf(transactions, AddrB) = {}

\* C29: SyncAllAddresses takes one listing of the registry when it starts and
\* works through it from the head: while it runs, the SyncAddress in progress
\* is the one of the head of what is left, what is left holds no address
\* twice and only ever loses its head, so that each listed address is tried
\* once, one at a time, and an address registered meanwhile is not; when a
\* SyncAddress ends, with or without an error, the next one starts, and a
\* failed fetch adds one to the errors and starts the next; the call returns
\* when nothing is left, with an error exactly when some SyncAddress failed.
C29_SyncAllSequential ==
    /\ [](LET s == wk["w1"]
          IN  /\ (s.op = "SyncAllAddresses" /\ s.pc \notin {"idle", "done"})
                 => /\ s.queue # <<>> /\ s.address = Head(s.queue)
                    /\ \A i, j \in DOMAIN s.queue : i # j => s.queue[i] # s.queue[j]
              /\ (s.op = "SyncAllAddresses" /\ s.pc = "done")
                 => /\ s.queue = <<>>
                    /\ s.err = IF s.errors > 0 THEN "sync_errors" ELSE "nil")
    /\ [][LET s == wk["w1"]
              t == wk'["w1"]
              running == s.op = "SyncAllAddresses" /\ s.pc \notin {"idle", "done"}
          IN  /\ (Resting("w1") /\ t # s /\ t.op = "SyncAllAddresses")
                 => /\ \/ t.queue \in RepoGetAllAddresses(addresses)
                       \/ (t.pc = "done" /\ <<>> \in RepoGetAllAddresses(addresses))
                    /\ t.errors = 0
              /\ running
                 => /\ t.op = "SyncAllAddresses"
                    /\ \/ t.queue = s.queue /\ t.errors = s.errors
                       \/ /\ t.queue = Tail(s.queue)
                          /\ t.errors \in {s.errors, s.errors + 1}
                    /\ (t.queue = Tail(s.queue) /\ Tail(s.queue) # <<>>)
                       => /\ t.pc = "sync_get"
                          /\ t.address = Head(Tail(s.queue))
              /\ (running /\ Len(s.queue) > 1 /\ ConcFetch("w1", FetchFail))
                 => /\ t.pc = "sync_get"
                    /\ t.address = s.queue[2]
                    /\ t.errors = s.errors + 1
                    /\ addresses' = addresses /\ transactions' = transactions]_vars

\* SyncAllAddresses has returned with one error: the fetch for B, listed
\* first, failed, and the sync of A after it saved h1 and set the watermark
C29_Witness ==
    /\ wk["w1"].pc = "done" /\ wk["w1"].op = "SyncAllAddresses"
    /\ wk["w1"].err = "sync_errors" /\ wk["w1"].errors = 1
    /\ wk["w1"].address = AddrA
    /\ Registered(addresses) = Addrs
    /\ \E ra \in AddrRowsOf(addresses, AddrA), rb \in AddrRowsOf(addresses, AddrB) :
          /\ ra.created_at < rb.created_at
          /\ ra.last_synced.Valid /\ rb.last_synced = NullTime
    /\ transactions = SetToBag({Classify(AddrA, Ev1)})
    /\ wk["w2"].op = "AddAddress" /\ wk["w2"].address = AddrB /\ wk["w2"].pc = "done"

\* C30: AddAddress(address, label) of a valid address that is not registered,
\* with the upstream down for the initial sync, returns nil and leaves the
\* address registered, with no watermark and with no stored transaction.
C30_BestEffortInitialSync ==
    \A a \in {AddrA, AddrBad}, l \in Labels :
       LET r == AddAddress(addresses, transactions, a, l, FetchFail, now)
       IN  (/\ IsValidAddress(a)
            /\ RepoGetAddress(addresses, a) = {}
            /\ RepoAddAddress(addresses, a, l, now).err = "nil")
           => /\ r.err = "nil"
              /\ a \in Registered(r.addresses)
              /\ LastSynced(r.addresses, a) = NullTime
              /\ TxRowsOf(r.transactions, a) = {}

\* C31: the addresses table never holds two rows of one address, nor one row
\* twice. When two AddAddress calls for one address have both passed the
\* already-tracked check and neither has inserted, the INSERT of either
\* succeeds and the INSERT of the other after it fails and leaves the table
\* as the first left it. In general the INSERT of an AddAddress whose address
\* has a row by then fails: the call returns the error and the table is as it
\* was; otherwise it adds the one row of the address.
C31_OneRowPerAddress ==
    /\ [](/\ \A r \in Rows(addresses) :
                /\ addresses[r] = 1
                /\ AddrRowsOf(addresses, r.address) = {r}
          /\ \A w \in Workers, v \in Workers :
                (/\ w # v
                 /\ wk[w].pc = "add_insert" /\ wk[v].pc = "add_insert"
                 /\ wk[w].address = wk[v].address
                 /\ AddrRowsOf(addresses, wk[w].address) = {})
                => \A t \in now..MaxTime :
                      LET first == RepoAddAddress(addresses, wk[w].address,
                                                  wk[w].label, now)
                          second == RepoAddAddress(first.addresses, wk[v].address,
                                                   wk[v].label, t)
                      IN  /\ first.err = "nil"
                          /\ Cardinality(AddrRowsOf(first.addresses, wk[w].address)) = 1
                          /\ second.err # "nil"
                          /\ second.addresses = first.addresses)
    /\ [][\A w \in Workers :
            (wk[w].pc = "add_insert" /\ wk'[w] # wk[w])
            => IF AddrRowsOf(addresses, wk[w].address) # {}
               THEN /\ wk'[w].pc = "done" /\ wk'[w].err = "add_failed"
                    /\ addresses' = addresses
               ELSE /\ wk'[w].pc = "sync_get"
                    /\ \E r \in Rows(addresses') :
                          /\ r.address = wk[w].address
                          /\ addresses' = Insert(addresses, r)]_vars

\* both workers called AddAddress(A) and passed the check before either
\* inserted; w1 returned nil and w2 the error of the INSERT; A has one row
C31_Witness ==
    /\ wk["w1"].op = "AddAddress" /\ wk["w1"].pc = "done" /\ wk["w1"].err = "nil"
    /\ wk["w2"].op = "AddAddress" /\ wk["w2"].pc = "done"
    /\ wk["w2"].err = "add_failed"
    /\ wk["w1"].address = AddrA /\ wk["w2"].address = AddrA
    /\ Cardinality(AddrRowsOf(addresses, AddrA)) = 1

\* C32: the balance a GetBalance(A) returns, run while SyncAddress(A) saves
\* transactions, is the balance of A in one of the states the transactions
\* table went through between the call and the return.
C32_BalanceIsASnapshot ==
    (wk["w1"].op = "GetBalance" /\ wk["w1"].pc = "done" /\ wk["w1"].err = "nil")
    => wk["w1"].balance \in wk["w1"].seen

\* C33: in every step that leaves A registered, with two SyncAddress calls of
\* A that overlap included, a watermark A has stays set and does not decrease.
C33_WatermarkNeverDecreases ==
    [][(/\ AddrA \in Registered(addresses) /\ AddrA \in Registered(addresses')
        /\ LastSynced(addresses, AddrA).Valid)
       => /\ LastSynced(addresses', AddrA).Valid
          /\ LastSynced(addresses', AddrA).Time >= LastSynced(addresses, AddrA).Time]_vars

\* C34: when the UpdateLastSynced of a sync of A runs while A is registered,
\* each transaction the sync fetched has a row (hash, A) in the transactions
\* table, whatever the other worker did in between (a sync of A, a
\* RemoveAddress of A, an AddAddress of A).
C34_MarkAfterIngestion ==
    [][\A w \in Workers :
         (/\ wk[w].pc = "sync_mark" /\ wk'[w] # wk[w]
          /\ RepoGetAddress(addresses, wk[w].address) # {})
         => /\ LastSynced(addresses', wk[w].address) = ValidTime(wk[w].t)
            /\ \A i \in DOMAIN wk[w].fetched :
                  /\ TransactionExists(transactions, wk[w].fetched[i].hash,
                                       wk[w].address)
                  /\ TransactionExists(transactions', wk[w].fetched[i].hash,
                                       wk[w].address)]_vars

\* the SyncAddress(A) of w1 fetched a transaction, wrote the watermark of the
\* registered A and returned nil while the AddAddress(A) of w2 is in its
\* initial sync; each fetched transaction has its row
C34_Witness ==
    /\ wk["w1"].op = "SyncAddress" /\ wk["w1"].pc = "done" /\ wk["w1"].err = "nil"
    /\ ~wk["w1"].missed
    /\ wk["w1"].fetched # <<>>
    /\ AddrA \in Registered(addresses)
    /\ LastSynced(addresses, AddrA) = ValidTime(wk["w1"].t)
    /\ wk["w2"].op = "AddAddress" /\ wk["w2"].pc \in {"sync_get", "sync_fetch"}
    /\ \A i \in DOMAIN wk["w1"].fetched :
          TransactionExists(transactions, wk["w1"].fetched[i].hash, AddrA)

\* C35: SyncAddress(a), whatever the upstream answers and whether it returns
\* nil or an error, leaves the addresses row of every other address b, its
\* last_synced included, and every transactions row of b as they were.
C35_SyncTouchesItsAddressOnly ==
    \A a \in Addrs, resp \in DepositResponses :
       LET r == SyncAddress(addresses, transactions, a, resp, now)
       IN  \A b \in Addrs \ {a} :
              /\ AddrRowsOf(r.addresses, b) = AddrRowsOf(addresses, b)
              /\ \A row \in AddrRowsOf(addresses, b) : r.addresses[row] = addresses[row]
              /\ TxRowsOf(r.transactions, b) = TxRowsOf(transactions, b)
              /\ \A row \in TxRowsOf(transactions, b) :
                    r.transactions[row] = transactions[row]

\* SyncAddress(A) has just saved h1 for A and set its watermark to the
\* present time; B is registered with its own row of h1 and an earlier
\* watermark
C35_Witness ==
    /\ last.op = "SyncAddress" /\ last.address = AddrA /\ last.err = "nil"
    /\ last.savedCount = 1
    /\ Registered(addresses) = Addrs
    /\ LastSynced(addresses, AddrA) = ValidTime(now)
    /\ LastSynced(addresses, AddrB).Valid
    /\ LastSynced(addresses, AddrB).Time < now
    /\ transactions = SetToBag({Classify(AddrA, Ev1), Classify(AddrB, Ev1)})

\* C36: when TransactionExists or SaveTransaction fails at a transaction of
\* the answer, SyncAddress returns that error, leaves the addresses table
\* (the watermark with it) as it was, and leaves the transactions table as
\* the loop over the transactions before the failing one left it, with
\* nothing undone and nothing saved after the failure; a SyncAddress on the
\* same answer after it, with a store that works, returns nil and leaves the
\* transactions table as one SyncAddress without the failure would have.
C36_PartialSyncIsResumed ==
    \A resp \in WindowResponses, failAt \in 1..MaxWindow, kind \in LoopStatements :
       LET r == SyncAddressOverStore(addresses, transactions, AddrA, resp, now,
                                     failAt, kind)
           before == SyncAddress(addresses, transactions, AddrA,
                                 FetchOk(SubSeq(resp.events, 1, failAt - 1)), now)
           whole == SyncAddress(addresses, transactions, AddrA, resp, now)
       IN  (r.err \in {"exists_failed", "save_failed"})
           => /\ r.err = IF kind = "TransactionExists" THEN "exists_failed"
                                                       ELSE "save_failed"
              /\ r.addresses = addresses
              /\ r.transactions = before.transactions
              /\ \A row \in Rows(transactions) :
                    \E kept \in Rows(r.transactions) :
                       kept.hash = row.hash /\ kept.address = row.address
              /\ \A t \in now..MaxTime :
                    LET again == SyncAddress(r.addresses, r.transactions, AddrA, resp, t)
                    IN  /\ again.err = "nil"
                        /\ again.transactions = whole.transactions

\* SyncAddress(A) has saved one transaction and then failed at a statement of
\* the loop: the saved row is in the table and A has no watermark
C36_Witness ==
    /\ last.op = "SyncAddress" /\ last.address = AddrA
    /\ last.err \in {"exists_failed", "save_failed"}
    /\ last.faults # {}
    /\ last.savedCount = 1
    /\ AddrA \in Registered(addresses)
    /\ LastSynced(addresses, AddrA) = NullTime
    /\ Cardinality(TxRowsOf(transactions, AddrA)) = 1

\* C37: at most one SyncAllAddresses called by startBackgroundSync is in
\* flight; a tick that arrives during a run waits in the channel, and a run
\* starts only when a tick is there and no run of startBackgroundSync is in
\* flight, that is after the one before has returned.
C37_BackgroundSyncNeverOverlaps ==
    /\ [](Cardinality({w \in Workers : /\ wk[w].op = "startBackgroundSync"
                                       /\ ~Resting(w)}) <= 1)
    /\ [][LET inFlight(v) == wk[v].op = "startBackgroundSync" /\ ~Resting(v)
              taken == wk["w1"].ticker = 1 /\ wk'["w1"].ticker = 0
          IN  /\ taken
                 => /\ \A v \in Workers : ~inFlight(v)
                    /\ \E w \in Workers :
                          /\ Resting(w) /\ wk'[w].op = "startBackgroundSync"
                          /\ wk'[w].pc \in {"sync_get", "done"}
              /\ \A w \in Workers :
                    (/\ Resting(w) /\ wk'[w].op = "startBackgroundSync"
                     /\ wk'[w].pc \notin {"idle", "done"})
                    => taken /\ \A v \in Workers : ~inFlight(v)]_vars

\* a run of startBackgroundSync and a SyncAllAddresses of an HTTP request are
\* both in flight, and the next tick waits in the channel
C37_Witness ==
    /\ wk["w1"].op = "startBackgroundSync" /\ wk["w1"].pc = "sync_fetch"
    /\ wk["w2"].op = "SyncAllAddresses" /\ wk["w2"].pc = "sync_fetch"
    /\ wk["w1"].ticker = 1

====
